---------------------------- MODULE Spec2Model ----------------------------
(***************************************************************************)
(* Model of the rhizoo-alpha-bot core: the LevelTracker (candle synthesis, *)
(* H1/H4 extremes, the per-level Hunter state machine) of                  *)
(* data/processor.py and the RiskManager of core/risk_manager.py.          *)
(*                                                                         *)
(* Numbers.  The program computes in floats; the model computes in exact   *)
(* integers over fixed units:                                              *)
(*   - a trade price is a whole number of price steps, PriceGrid steps     *)
(*     making 0.01, so that round(x, 2) is a real rounding;                *)
(*   - nOFI is counted in units of 0.0001 (compute_metrics rounds it to    *)
(*     4 decimals);                                                        *)
(*   - wall-clock time is counted in model ticks;                          *)
(*   - a ratio such as buffer_zone_pct is a numerator over a denominator   *)
(*     and every comparison is cross-multiplied.                           *)
(*   - bid, ask and stop-loss are whole numbers of quote steps, QuoteGrid  *)
(*     steps making 0.00000001, so that round(x, 8) is a real rounding;    *)
(*   - an order size is counted in units of 0.00000001 and the balance in  *)
(*     the unit that buys UnitQty such units at a price of one quote step; *)
(*   - daily_pnl is counted in balance units, the UTC date in days;        *)
(*   - the PaperBroker's prices, pnl and balance are whole numbers of     *)
(*     0.00000001 and its sizes are counted in units of 0.00000001; one    *)
(*     such unit of pnl makes PnlUnit balance units of the RiskManager;    *)
(*   - the last price of a batch is a whole number of quote steps.         *)
(* A decimal tie of round() depends on the binary representation of the    *)
(* float, so the direction of a tie is an input of the operation.          *)
(***************************************************************************)
EXTENDS Integers, Sequences, FiniteSets, TLC

(***************************************************************************)
(* Bounds of the model                                                     *)
(***************************************************************************)
\* LevelConfig values: the program's defaults are 240 / 60 candles and
\* 60 s / 30 s / 1800 s; the model runs a configuration with small values.
candle_window == 2
h1_lookback == 1
sweep_timeout_sec == 2
confirm_timeout_sec == 1
cooldown_sec == 3
\* wall clock stops at MaxNow, the tape at bucket MaxBucket, a candle takes
\* at most MaxTrades trades
MaxNow == 9
MaxBucket == 3
MaxTrades == 3
\* the UTC date goes from day 0 to day MaxDay; daily_pnl stays between
\* -MaxLoss and MaxGain two-hundredths of the balance
MaxDay == 1
MaxLoss == 6
MaxGain == 2
\* the broker holds at most MaxOpen positions and closes at most MaxClosed
MaxOpen == 2
MaxClosed == 2
\* the drive loop opens at most MaxEntries positions
MaxEntries == 3
\* watch_trades is called at most MaxEvents times
MaxEvents == 8
\* the drive loop takes at most MaxBatches batches
MaxBatches == 2
\* ImbalanceConfig.max_buffer_size: the program's default is 50000
max_buffer_size == 3
\* the wall clock of the imbalance engine stops after MaxWall steps
MaxWall == 6
\* a position is closed at most MaxMove (in 0.00000001) from its entry price
MaxMove == 20
\* the subscriber receives at most MaxBroadcasts messages
MaxBroadcasts == 2
\* one broadcast makes at most MaxSends sends
MaxSends == 4

(***************************************************************************)
(* Program constants                                                       *)
(***************************************************************************)
candle_interval_ms == 60000
\* buffer_zone_pct = 0.0005 = BufferNum / BufferDen
BufferNum == 5
BufferDen == 10000
\* nofi_threshold = 0.7, in units of 0.0001
nofi_threshold == 7000
\* price steps per 0.01 (the quantum of round(x, 2))
PriceGrid == 4

\* RiskConfig defaults
\* max_account_risk_pct = 0.01 = RiskNum / RiskDen
RiskNum == 1
RiskDen == 100
\* max_daily_loss_pct = 0.03 = DailyLossNum / DailyLossDen
DailyLossNum == 3
DailyLossDen == 100
max_consecutive_losses == 3
\* max_volatility_zscore = 4.0, in units of 0.01
max_volatility_zscore == 400
\* max_spread_pct = 0.001 = SpreadNum / SpreadDen
SpreadNum == 1
SpreadDen == 1000
reward_risk_ratio == 2
\* min_order_qty = 0.001, in units of 0.00000001
min_order_qty == 100000
\* quote steps per 0.00000001 (the quantum of round(x, 8)): bid, ask and
\* stop_loss are whole numbers of quote steps
QuoteGrid == 4
\* the balance unit: one balance unit bought at one quote step is UnitQty
\* units of 0.00000001 of the base currency
UnitQty == 100
\* _COMMISSION_PCT = 0.0005 = CommissionNum / CommissionDen
CommissionNum == 5
CommissionDen == 10000
\* size units (of 0.00000001) in one unit of the base currency: a price
\* difference in 0.00000001 times a size in size units is a pnl in
\* 1 / SizeScale of 0.00000001
SizeScale == 100000000
\* exchange_client.py: the reconnect policy of the stream
MAX_RECONNECT_RETRIES == 5
BACKOFF_BASE_SECONDS == 2
\* nofi_window_sec = 60.0, in ms
nofi_window_ms == 60000
\* round(nofi, 4): nOFI is counted in units of 0.0001
NofiScale == 10000

_SCANNING == "SCANNING"
_SWEEPING == "SWEEPING"
_CONFIRMING == "CONFIRMING"
_COOLDOWN == "COOLDOWN"
HuntStates == {_SCANNING, _SWEEPING, _CONFIRMING, _COOLDOWN}

\* iteration order of the _hunts dict
LevelOrder == <<"H1_High", "H1_Low", "H4_High", "H4_Low">>
LevelNames == {LevelOrder[i] : i \in 1..4}
is_high(name) == name \in {"H1_High", "H4_High"}
LevelIndex(name) == CHOOSE i \in 1..4 : LevelOrder[i] = name

\* float("nan"): a value that is outside every number of the model and on
\* which every comparison of the program is false
NaN == -999999999
is_nan(x) == x = NaN

\* the value a function returns when it returns None
None == [side |-> "none"]

(***************************************************************************)
(* Inputs                                                                  *)
(***************************************************************************)
\* trade prices, in price steps (2000 steps = 5.00); buf is about one step
Prices == {1997, 2000, 2001, 2003}
Amounts == {1}
NofiValues == {-7000, 0, 7000}
TimeSteps == {1, 4}
\* account balances, in balance units
Balances == {1000000, 4000000}
\* volume Z-scores, in units of 0.01
ZScores == {0, 399, 400}
\* bid and ask, in quote steps
Quotes == {<<0, 2000>>, <<2000, 0>>, <<1998, 2000>>, <<1999, 2001>>,
           <<2001, 2001>>}
Sides == {"buy", "sell"}
StopLosses == {0, 1977, 1997, 1999, 2003}
\* the imbalance engine: a step of the wall clock in ms and the trades on
\* the tape
FeedStep == 30000
\* <<is_buy, price, amount>>
FeedTrades == {<<TRUE, 2000, 39999>>, <<TRUE, 2000, 0>>,
               <<FALSE, 2000, 1>>, <<FALSE, 2000, 0>>}
\* the drive loop: the batches of the tape as sequences of
\* <<is_buy, price, amount>>, the z-scores of their metrics, the signals of
\* the strategy and the outcomes of a publish
LoopBatches == {<<>>, <<<<FALSE, 1980, 1>>>>}
LoopZScores == {0}
LoopSignals == {[side |-> "buy", stop_loss |-> 1980]}
PublishOutcomes == {"published", "publish_failed"}
\* the MarketRegime snapshots: a calm market, and an extreme downtrend
\* that allows sells alone
Regimes == {"calm", "bear"}
\* stop-losses and quotes of which one is not a number
NonFiniteStops == {NaN, 1997}
NonFiniteQuotes == {<<NaN, NaN>>, <<2000, NaN>>, <<2000, 2000>>}
\* the pnl of a closed trade, in two-hundredths of the balance
PnlSteps == {-3, -1, 0, 2}
\* the paper balance at construction, in units of 0.00000001
PaperBalances == {100}
\* the trade rows of a CSV file that an earlier run left (0: no file, or a
\* file with its header only)
EarlierRows == {0, 2}
\* orders handed to the broker: prices in units of 0.00000001, sizes in
\* units of 0.00000001
BrokerOrders ==
    {[side |-> "buy", entry_price |-> 20000, stop_loss |-> 19990,
      take_profit |-> 20020, position_size |-> 50000000],
     [side |-> "sell", entry_price |-> 4000, stop_loss |-> 4010,
      take_profit |-> 3980, position_size |-> 50000000],
     [side |-> "buy", entry_price |-> 500, stop_loss |-> 495,
      take_profit |-> 510, position_size |-> 50000000],
     [side |-> "sell", entry_price |-> 3000, stop_loss |-> 3010,
      take_profit |-> 2980, position_size |-> 25000000]}
ExitPrices == {495, 500, 510, 2980, 3000, 3010, 3980, 4000, 4010, 19990, 20000,
               20020}
TradeResults == {"WIN", "LOSS"}
\* the drive loop: balance, z-scores, last prices and quotes (in quote
\* steps) and the signals that the strategy and the regime gate hand over
RunBalances == {400000000}
RunZScores == {0, 400}
LastPrices == {1960, 1980, 2000, 2020, 2040}
\* the dashboard: the WebSocket objects, the {symbol} of their paths and
\* the symbols of the telemetry events
Sockets == {1, 2, 3}
Paths == {"btc_usdt", "BTC_USDT", "eth_usdt"}
Symbols == {"BTC/USDT", "ETH/USDT"}
RunQuotes == {<<2000, 2000>>}
RunSignals == {[side |-> "buy", stop_loss |-> 1980],
               [side |-> "sell", stop_loss |-> 2020]}

Max(a, b) == IF a >= b THEN a ELSE b
Min(a, b) == IF a <= b THEN a ELSE b
Abs(a) == IF a >= 0 THEN a ELSE -a

\* round(n/d) to the nearest integer, d > 0; a tie goes up iff tie_up
RoundDiv(n, d, tie_up) ==
    LET q == n \div d
        r == n % d
    IN  IF 2 * r < d THEN q
        ELSE IF 2 * r > d THEN q + 1
        ELSE IF tie_up THEN q + 1 ELSE q

\* RoundDiv(a * u, d, tie_up), computed without forming a * u
MulRoundDiv(a, u, d, tie_up) ==
    (a \div d) * u + RoundDiv((a % d) * u, d, tie_up)

VARIABLES
    candles,          \* LevelTracker._candles: finalised candles, oldest first
    current_candle,   \* LevelTracker._current_candle (None before the first trade)
    candle_open_ts,   \* LevelTracker._candle_open_ts
    current_price,    \* LevelTracker._current_price
    h1_high, h1_low, h4_high, h4_low,   \* LevelTracker._h1_high .. _h4_low
    hunts,            \* LevelTracker._hunts: level name -> _HuntState
    now,              \* time.time() as read by the last check_hunt
    nofi,             \* the nofi argument of the last check_hunt
    result,           \* the value returned by the last check_hunt
    ticked,           \* the levels the last check_hunt evaluated, in order
    account_balance,  \* RiskManager.config.account_balance
    volatility_halted, \* RiskManager._volatility_halted
    current_day,      \* RiskManager._current_day
    daily_pnl,        \* RiskManager._daily_pnl
    consecutive_losses, \* RiskManager._consecutive_losses
    daily_halted,     \* RiskManager._daily_halted
    today,            \* the UTC date, as _today_utc() returns it
    metrics,          \* the metrics passed to the last RiskManager call
    signal,           \* the signal passed to the last RiskManager call
    quote,            \* <<bid, ask>> passed to the last RiskManager call
    order,            \* the value the last RiskManager call returned
    reject,           \* the rejection the last RiskManager call logged
    active_positions, \* PaperBroker.active_positions
    virtual_balance,  \* PaperBroker.virtual_balance
    peak_balance,     \* PaperBroker._peak_balance
    max_drawdown_pct, \* PaperBroker._max_drawdown_pct, as a fraction times 100
    _initial_balance, \* PaperBroker._initial_balance
    _gross_win,       \* PaperBroker._gross_win
    _gross_loss,      \* PaperBroker._gross_loss
    closed_trades,    \* PaperBroker._closed_trades
    next_id,          \* the number of ids the broker has drawn, plus one
    csv_rows_before,  \* the trade rows an earlier run left in the CSV file
    csv_lines,        \* the lines of the CSV file
    _trades,          \* imbalance: the ring of raw trade records
    wall,             \* imbalance: time.time() in ms
    market,           \* imbalance: the MarketMetrics computed last
    retries,          \* stream: the reconnects since the last batch
    delay,            \* stream: the seconds of the last backoff sleep
    stream,           \* stream: "watching", "sleeping" or "raised"
    history,          \* stream: what watch_trades did, call by call
    phase,            \* run: "running", the steps of finally, "exited"
    raised,           \* run: the exception that left the try block
    refresh_task,     \* run: "none", "running" or "cancelled"
    regime,           \* run: the MarketRegime snapshot
    paper,            \* PAPER_TRADING
    _enabled,         \* telemetry: the connection to the channel is up
    publish_failed,   \* telemetry: a publish of the tick has failed
    shutdown,         \* run: the steps of finally taken so far
    trade_signal,     \* run: the signal of the tick, once generated
    trades,           \* run: the batch of the tick
    pc,               \* run: the step of the tick that comes next
    last_price,       \* run: trades[-1]["price"] of the batch of the tick
    calls,            \* run: the calls of the tick so far, with their argument
    _clients,         \* dashboard: ConnectionManager._clients, symbol -> set
    sockets,          \* dashboard: each WebSocket's endpoint task
    broadcasting,     \* dashboard: the broadcast of the subscriber task
    delivered,        \* dashboard: the sends of the broadcast that succeeded
    op                \* the operation performed last

huntVars == <<candles, current_candle, candle_open_ts, current_price,
              h1_high, h1_low, h4_high, h4_low, hunts, now, nofi, result,
              ticked>>

riskVars == <<account_balance, volatility_halted, current_day, daily_pnl,
              consecutive_losses, daily_halted, today, metrics, signal, quote,
              order, reject>>

brokerVars == <<active_positions, virtual_balance, peak_balance,
                max_drawdown_pct, _initial_balance, _gross_win, _gross_loss,
                closed_trades, next_id, csv_rows_before, csv_lines>>

runVars == <<pc, last_price, calls>>

feedVars == <<_trades, wall, market>>

streamVars == <<retries, delay, stream, history>>

teleVars == <<_enabled, publish_failed>>

lifeVars == <<phase, raised, refresh_task, regime, paper, shutdown,
              trade_signal, trades>>

loopVars == <<streamVars, teleVars, lifeVars>>

\* the dashboard's ConnectionManager and the tasks around it
dashVars == <<_clients, sockets, broadcasting, delivered>>

vars == <<huntVars, riskVars, brokerVars, runVars, feedVars, loopVars,
          dashVars, op>>

(***************************************************************************)
(* ImbalanceTracker                                                        *)
(***************************************************************************)
\* a deque that grows without a bound
trades_append_unbounded(ring, t) == Append(ring, t)

\* deque(maxlen=max_buffer_size).append
trades_append(ring, t) ==
    IF Len(ring) >= max_buffer_size THEN Append(Tail(ring), t)
    ELSE Append(ring, t)

\* ImbalanceTracker.push(trades): the ring after the batch
RECURSIVE push(_, _)
push(ring, batch) ==
    IF batch = <<>> THEN ring
    ELSE push(trades_append(ring, Head(batch)), Tail(batch))

\* _window: the entries from the newest back to the first one older than
\* the cutoff, in chronological order
RECURSIVE _window(_, _)
_window(ring, cutoff) ==
    IF ring = <<>> THEN <<>>
    ELSE IF ring[Len(ring)].timestamp < cutoff THEN <<>>
    ELSE Append(_window(SubSeq(ring, 1, Len(ring) - 1), cutoff),
                ring[Len(ring)])

\* a mask that selects every trade
on_side_any(t, buy) == TRUE

\* the masks is_buy and ~is_buy
on_side(t, buy) == t.is_buy = buy

\* np.sum(amounts[is_buy]) and np.sum(amounts[~is_buy])
RECURSIVE side_volume(_, _)
side_volume(window, buy) ==
    IF window = <<>> THEN 0
    ELSE (IF on_side(Head(window), buy) THEN Head(window).amount ELSE 0)
             + side_volume(Tail(window), buy)

\* compute_nofi followed by the round(nofi, 4) of compute_metrics
compute_nofi(window, tie_up) ==
    LET v_buy == side_volume(window, TRUE)
        v_sell == side_volume(window, FALSE)
        total == v_buy + v_sell
    IN  [nofi |-> IF Len(window) = 0 \/ total = 0 THEN 0
                  ELSE RoundDiv((v_buy - v_sell) * NofiScale, total, tie_up),
         buy_volume |-> v_buy,
         sell_volume |-> v_sell]

\* compute_metrics at wall-clock time t: nOFI and the volumes behind it
compute_metrics(ring, t, tie_up) ==
    compute_nofi(_window(ring, t - nofi_window_ms), tie_up)

(***************************************************************************)
(* LevelTracker                                                            *)
(***************************************************************************)
_HuntState(name) ==
    [name |-> name, is_high |-> is_high(name), state |-> _SCANNING,
     level_price |-> 0, opposite_price |-> 0, wick_extreme |-> 0,
     sweep_start |-> 0, cooldown_until |-> 0]

_bucket_ts(ts_ms) == (ts_ms \div candle_interval_ms) * candle_interval_ms

\* deque(maxlen=candle_window).append
ring_append(ring, c) ==
    IF Len(ring) >= candle_window THEN Append(Tail(ring), c) ELSE Append(ring, c)

RECURSIVE MaxHigh(_), MinLow(_)
MaxHigh(cs) == IF Len(cs) = 1 THEN cs[1].h ELSE Max(cs[1].h, MaxHigh(Tail(cs)))
MinLow(cs) == IF Len(cs) = 1 THEN cs[1].l ELSE Min(cs[1].l, MinLow(Tail(cs)))

\* all_candles[-k:]
LastK(cs, k) == SubSeq(cs, Len(cs) - k + 1, Len(cs))

\* mutant of refresh_level: the level follows the extremes in every state
refresh_level_always(h, lvl, opp) ==
    [h EXCEPT !.level_price = lvl, !.opposite_price = opp]

\* _recompute_levels: the body of the loop over level_map
refresh_level(h, lvl, opp) ==
    IF h.state = _SCANNING
    THEN [h EXCEPT !.level_price = lvl, !.opposite_price = opp]
    ELSE h

\* the levels and hunts that _recompute_levels leaves behind
_recompute_levels(cs, lv, hs) ==
    LET n == Len(cs) IN
    IF n < 2 THEN [levels |-> lv, hunts |-> hs]
    ELSE
      LET h1_slice == LastK(cs, Min(h1_lookback, n))
          new == [h4_high |-> MaxHigh(cs), h4_low |-> MinLow(cs),
                  h1_high |-> MaxHigh(h1_slice), h1_low |-> MinLow(h1_slice)]
          level_map == [name \in LevelNames |->
              CASE name = "H1_High" -> <<new.h1_high, new.h1_low>>
                [] name = "H1_Low"  -> <<new.h1_low, new.h1_high>>
                [] name = "H4_High" -> <<new.h4_high, new.h4_low>>
                [] name = "H4_Low"  -> <<new.h4_low, new.h4_high>>]
      IN  [levels |-> new,
           hunts |-> [name \in LevelNames |->
              refresh_level(hs[name], level_map[name][1], level_map[name][2])]]

\* mutant of _build_result: fib_50 = range_low + 0.5 * range_high
_build_result_no_difference(h, side, tie_up) ==
    LET range_high == Max(h.level_price, h.opposite_price)
        range_low == Min(h.level_price, h.opposite_price)
    IN  [side |-> side, strength |-> "HIGH", level_name |-> h.name,
         level_price |-> RoundDiv(h.level_price, PriceGrid, tie_up),
         wick_extreme |-> RoundDiv(h.wick_extreme, PriceGrid, tie_up),
         fib_tp |-> RoundDiv(2 * range_low + range_high, 2 * PriceGrid, tie_up),
         range_high |-> RoundDiv(range_high, PriceGrid, tie_up),
         range_low |-> RoundDiv(range_low, PriceGrid, tie_up)]

_build_result(h, side, tie_up) ==
    LET range_high == Max(h.level_price, h.opposite_price)
        range_low == Min(h.level_price, h.opposite_price)
    IN  \* fib_50 = range_low + 0.5 * (range_high - range_low)
        \*        = (range_low + range_high) / 2 price steps
        [side |-> side, strength |-> "HIGH", level_name |-> h.name,
         level_price |-> RoundDiv(h.level_price, PriceGrid, tie_up),
         wick_extreme |-> RoundDiv(h.wick_extreme, PriceGrid, tie_up),
         fib_tp |-> RoundDiv(range_low + range_high, 2 * PriceGrid, tie_up),
         range_high |-> RoundDiv(range_high, PriceGrid, tie_up),
         range_low |-> RoundDiv(range_low, PriceGrid, tie_up)]

\* price > level + buf  and  price < level - buf, with buf = price * BufferNum / BufferDen
AboveBuffer(price, level) == price * BufferDen > level * BufferDen + price * BufferNum
BelowBuffer(price, level) == price * BufferDen < level * BufferDen - price * BufferNum

\* mutant of tick_cooldown: the level leaves COOLDOWN on its next evaluation
tick_cooldown_ignored(h, t) ==
    [h |-> [h EXCEPT !.state = _SCANNING], result |-> None]

\* _tick_hunt, state COOLDOWN
tick_cooldown(h, t) ==
    IF t >= h.cooldown_until
    THEN [h |-> [h EXCEPT !.state = _SCANNING], result |-> None]
    ELSE [h |-> h, result |-> None]

\* _tick_hunt, state CONFIRMING: `elapsed > total_timeout`
confirm_timed_out(h, t) ==
    t - h.sweep_start > sweep_timeout_sec + confirm_timeout_sec

\* mutant of nofi_confirms: the sign of the threshold is the same for both
nofi_confirms_same_sign(h, nf) == nf >= nofi_threshold

\* _tick_hunt, state CONFIRMING: the nOFI confirmation of a high / a low level
nofi_confirms(h, nf) ==
    \/ h.is_high /\ nf <= -nofi_threshold
    \/ ~h.is_high /\ nf >= nofi_threshold

\* mutant of confirm_emit: the level stays in CONFIRMING
confirm_emit_stays(h, t, tie_up) ==
    [h |-> h,
     result |-> _build_result(h, IF h.is_high THEN "sell" ELSE "buy", tie_up)]

\* _tick_hunt, state CONFIRMING: the level enters COOLDOWN and emits
confirm_emit(h, t, tie_up) ==
    LET h2 == [h EXCEPT !.state = _COOLDOWN, !.cooldown_until = t + cooldown_sec]
    IN  [h |-> h2,
         result |-> _build_result(h2, IF h.is_high THEN "sell" ELSE "buy", tie_up)]

\* mutant of tick_confirming: the nOFI confirmation is checked first
tick_confirming_nofi_first(h, price, nf, t, tie_up) ==
    IF nofi_confirms(h, nf)
    THEN confirm_emit(h, t, tie_up)
    ELSE IF confirm_timed_out(h, t)
    THEN [h |-> [h EXCEPT !.state = _SCANNING], result |-> None]
    ELSE IF h.is_high /\ AboveBuffer(price, h.level_price)
    THEN [h |-> [h EXCEPT !.state = _SWEEPING,
                          !.wick_extreme = Max(h.wick_extreme, price)],
          result |-> None]
    ELSE IF ~h.is_high /\ BelowBuffer(price, h.level_price)
    THEN [h |-> [h EXCEPT !.state = _SWEEPING,
                          !.wick_extreme = Min(h.wick_extreme, price)],
          result |-> None]
    ELSE [h |-> h, result |-> None]

\* mutant of tick_confirming: a new break-out starts the timers again
tick_confirming_restarts(h, price, nf, t, tie_up) ==
    IF confirm_timed_out(h, t)
    THEN [h |-> [h EXCEPT !.state = _SCANNING], result |-> None]
    ELSE IF h.is_high /\ AboveBuffer(price, h.level_price)
    THEN [h |-> [h EXCEPT !.state = _SWEEPING, !.sweep_start = t,
                          !.wick_extreme = Max(h.wick_extreme, price)],
          result |-> None]
    ELSE IF ~h.is_high /\ BelowBuffer(price, h.level_price)
    THEN [h |-> [h EXCEPT !.state = _SWEEPING, !.sweep_start = t,
                          !.wick_extreme = Min(h.wick_extreme, price)],
          result |-> None]
    ELSE IF nofi_confirms(h, nf)
    THEN confirm_emit(h, t, tie_up)
    ELSE [h |-> h, result |-> None]

\* mutant of tick_confirming: the new break-out is not looked for
tick_confirming_no_rebreak(h, price, nf, t, tie_up) ==
    IF confirm_timed_out(h, t)
    THEN [h |-> [h EXCEPT !.state = _SCANNING], result |-> None]
    ELSE IF nofi_confirms(h, nf)
    THEN confirm_emit(h, t, tie_up)
    ELSE [h |-> h, result |-> None]

\* _tick_hunt, state CONFIRMING
tick_confirming(h, price, nf, t, tie_up) ==
    IF confirm_timed_out(h, t)
    THEN [h |-> [h EXCEPT !.state = _SCANNING], result |-> None]
    ELSE IF h.is_high /\ AboveBuffer(price, h.level_price)
    THEN [h |-> [h EXCEPT !.state = _SWEEPING,
                          !.wick_extreme = Max(h.wick_extreme, price)],
          result |-> None]
    ELSE IF ~h.is_high /\ BelowBuffer(price, h.level_price)
    THEN [h |-> [h EXCEPT !.state = _SWEEPING,
                          !.wick_extreme = Min(h.wick_extreme, price)],
          result |-> None]
    ELSE IF nofi_confirms(h, nf)
    THEN confirm_emit(h, t, tie_up)
    ELSE [h |-> h, result |-> None]

\* _tick_hunt, state SWEEPING
tick_sweeping(h, price, t) ==
    IF t - h.sweep_start > sweep_timeout_sec
    THEN [h |-> [h EXCEPT !.state = _SCANNING], result |-> None]
    ELSE
      LET wick == IF h.is_high THEN Max(h.wick_extreme, price)
                               ELSE Min(h.wick_extreme, price)
          snap == \/ h.is_high /\ price < h.level_price
                  \/ ~h.is_high /\ price > h.level_price
      IN  [h |-> [h EXCEPT !.wick_extreme = wick,
                           !.state = IF snap THEN _CONFIRMING ELSE _SWEEPING],
           result |-> None]

\* mutant of tick_scanning: a break-out is taken for a completed sweep
tick_scanning_to_confirming(h, price, t) ==
    IF \/ h.is_high /\ AboveBuffer(price, h.level_price)
       \/ ~h.is_high /\ BelowBuffer(price, h.level_price)
    THEN [h |-> [h EXCEPT !.state = _CONFIRMING, !.sweep_start = t,
                          !.wick_extreme = price],
          result |-> None]
    ELSE [h |-> h, result |-> None]

\* _tick_hunt, state SCANNING
tick_scanning(h, price, t) ==
    IF \/ h.is_high /\ AboveBuffer(price, h.level_price)
       \/ ~h.is_high /\ BelowBuffer(price, h.level_price)
    THEN [h |-> [h EXCEPT !.state = _SWEEPING, !.sweep_start = t,
                          !.wick_extreme = price],
          result |-> None]
    ELSE [h |-> h, result |-> None]

\* one evaluation of one level: the new _HuntState and the value returned
_tick_hunt(h, price, nf, t, tie_up) ==
    IF h.state = _COOLDOWN THEN tick_cooldown(h, t)
    ELSE IF h.state = _CONFIRMING THEN tick_confirming(h, price, nf, t, tie_up)
    ELSE IF h.state = _SWEEPING THEN tick_sweeping(h, price, t)
    ELSE tick_scanning(h, price, t)

\* mutant of loop_continues: the loop does not stop at the first result
loop_continues_always(r) == TRUE

\* does the loop of check_hunt go on after the value r of one _tick_hunt
loop_continues(r) == r = None

\* the loop of check_hunt from the i-th level on: the hunts it leaves, the
\* value it returns and the levels it has evaluated, in order
RECURSIVE hunt_loop(_, _, _, _, _, _, _)
hunt_loop(i, hs, evaluated, price, nf, t, tie_up) ==
    IF i > Len(LevelOrder)
    THEN [hunts |-> hs, result |-> None, ticked |-> evaluated]
    ELSE
      LET name == LevelOrder[i] IN
      IF hs[name].level_price = 0
      THEN hunt_loop(i + 1, hs, evaluated, price, nf, t, tie_up)
      ELSE
        LET r == _tick_hunt(hs[name], price, nf, t, tie_up)
            hs2 == [hs EXCEPT ![name] = r.h]
            ev2 == Append(evaluated, name)
        IN  IF ~loop_continues(r.result)
            THEN [hunts |-> hs2, result |-> r.result, ticked |-> ev2]
            ELSE hunt_loop(i + 1, hs2, ev2, price, nf, t, tie_up)

(***************************************************************************)
(* RiskManager                                                             *)
(***************************************************************************)
\* the daily tracker as one record
DailyState ==
    [current_day |-> current_day, daily_pnl |-> daily_pnl,
     consecutive_losses |-> consecutive_losses, daily_halted |-> daily_halted]

\* a rollover that leaves the daily breaker set
_check_day_rollover_keeps_halt(d, day) ==
    IF day # d.current_day
    THEN [current_day |-> day, daily_pnl |-> 0, consecutive_losses |-> 0,
          daily_halted |-> d.daily_halted]
    ELSE d

\* RiskManager._check_day_rollover with _today_utc() = day
_check_day_rollover(d, day) ==
    IF day # d.current_day
    THEN [current_day |-> day, daily_pnl |-> 0, consecutive_losses |-> 0,
          daily_halted |-> FALSE]
    ELSE d

\* daily_pnl <= -(account_balance * max_daily_loss_pct)
daily_limit_hit(balance, pnl) ==
    pnl <= (-(balance * DailyLossNum)) \div DailyLossDen

\* the breakers with the consecutive-loss check moved to the front
breaker_checks_consecutive_first(balance, d, vol_halted) ==
    IF d.consecutive_losses >= max_consecutive_losses
    THEN [daily_halted |-> d.daily_halted, reject |-> "consecutive_losses"]
    ELSE IF d.daily_halted
    THEN [daily_halted |-> TRUE, reject |-> "daily_halted"]
    ELSE IF daily_limit_hit(balance, d.daily_pnl)
    THEN [daily_halted |-> TRUE, reject |-> "daily_limit"]
    ELSE IF vol_halted
    THEN [daily_halted |-> d.daily_halted, reject |-> "volatility"]
    ELSE [daily_halted |-> d.daily_halted, reject |-> ""]

\* the breakers without the consecutive-loss check
breaker_checks_no_loss_count(balance, d, vol_halted) ==
    IF d.daily_halted
    THEN [daily_halted |-> TRUE, reject |-> "daily_halted"]
    ELSE IF daily_limit_hit(balance, d.daily_pnl)
    THEN [daily_halted |-> TRUE, reject |-> "daily_limit"]
    ELSE IF vol_halted
    THEN [daily_halted |-> d.daily_halted, reject |-> "volatility"]
    ELSE [daily_halted |-> d.daily_halted, reject |-> ""]

\* process_signal, checks 1-3 (the breakers): the daily_halted flag that
\* the call leaves and the rejection, "" when the signal passes
breaker_checks(balance, d, vol_halted) ==
    IF d.daily_halted
    THEN [daily_halted |-> TRUE, reject |-> "daily_halted"]
    ELSE IF daily_limit_hit(balance, d.daily_pnl)
    THEN [daily_halted |-> TRUE, reject |-> "daily_limit"]
    ELSE IF d.consecutive_losses >= max_consecutive_losses
    THEN [daily_halted |-> d.daily_halted, reject |-> "consecutive_losses"]
    ELSE IF vol_halted
    THEN [daily_halted |-> d.daily_halted, reject |-> "volatility"]
    ELSE [daily_halted |-> d.daily_halted, reject |-> ""]

\* a slippage guard that also rejects a spread equal to max_spread_pct
quote_checks_inclusive(bid, ask) ==
    IF bid <= 0 \/ ask <= 0 THEN "bid_ask"
    ELSE IF 2 * (ask - bid) * SpreadDen >= SpreadNum * (bid + ask) THEN "spread"
    ELSE ""

\* process_signal, check 4 (the slippage guard)
\* spread_pct = (ask - bid) / ((bid + ask) / 2) > max_spread_pct
quote_checks(bid, ask) ==
    IF (~is_nan(bid) /\ bid <= 0) \/ (~is_nan(ask) /\ ask <= 0) THEN "bid_ask"
    \* spread_pct is nan and nan > max_spread_pct is false
    ELSE IF is_nan(bid) \/ is_nan(ask) THEN ""
    ELSE IF 2 * (ask - bid) * SpreadDen > SpreadNum * (bid + ask) THEN "spread"
    ELSE ""

\* RiskManager.calculate_position_size, in units of 0.00000001; 0 is the
\* code's 0.0
calculate_position_size(balance, entry_price, stop_loss_price, tie_up) ==
    LET risk_distance == Abs(entry_price - stop_loss_price)
        \* size = risk_amount / risk_distance
        \*      = balance * RiskNum * UnitQty / (RiskDen * risk_distance)
        size_den == RiskDen * risk_distance
    IN  \* risk_distance is nan: nan == 0.0 and nan < min_order_qty are
        \* false, min(nan, nan) and round(nan, 8) are nan
        IF is_nan(entry_price) \/ is_nan(stop_loss_price) THEN NaN
        ELSE IF risk_distance = 0 THEN 0
        \* size < min_order_qty, both sides divided by UnitQty
        ELSE IF balance * RiskNum < (min_order_qty \div UnitQty) * size_den
        THEN 0
        \* max_size = balance / entry_price = balance * UnitQty / entry_price;
        \* size <= max_size iff RiskNum * entry_price <= RiskDen * risk_distance
        ELSE IF RiskNum * entry_price <= RiskDen * risk_distance
        THEN MulRoundDiv(balance * RiskNum, UnitQty, size_den, tie_up)
        ELSE MulRoundDiv(balance, UnitQty, entry_price, tie_up)

\* round(x, 8) of a price in quote steps; round(nan, 8) is nan
round8(x, tie_up) == IF is_nan(x) THEN NaN ELSE RoundDiv(x, QuoteGrid, tie_up)

\* mutant of build_order: the take_profit of the signal is kept
build_order_keeps_take_profit(balance, sig, bid, ask, tie_up) ==
    LET entry_price == IF sig.side = "buy" THEN ask ELSE bid
        \* nan > 0 is false
        stop_loss == IF ~is_nan(sig.stop_loss) /\ sig.stop_loss > 0
                     THEN sig.stop_loss ELSE 0
        risk_distance == Abs(entry_price - stop_loss)
        take_profit == IF is_nan(entry_price) THEN NaN
                       ELSE IF sig.take_profit > 0 THEN sig.take_profit
                       ELSE IF sig.side = "buy"
                       THEN entry_price + risk_distance * reward_risk_ratio
                       ELSE entry_price - risk_distance * reward_risk_ratio
        size == calculate_position_size(balance, entry_price, stop_loss, tie_up)
    IN  IF stop_loss = 0 THEN [order |-> None, reject |-> "no_stop_loss"]
        \* stop_loss >= nan and stop_loss <= nan are false
        ELSE IF sig.side = "buy" /\ ~is_nan(entry_price)
                /\ stop_loss >= entry_price
        THEN [order |-> None, reject |-> "stop_loss_side"]
        ELSE IF sig.side = "sell" /\ ~is_nan(entry_price)
                /\ stop_loss <= entry_price
        THEN [order |-> None, reject |-> "stop_loss_side"]
        ELSE IF size = 0 THEN [order |-> None, reject |-> "size"]
        ELSE [order |-> [side |-> sig.side,
                         entry_price |-> round8(entry_price, tie_up),
                         stop_loss |-> round8(stop_loss, tie_up),
                         take_profit |-> round8(take_profit, tie_up),
                         position_size |-> size],
              reject |-> ""]

\* process_signal, checks 5-6: entry, stop-loss, take-profit and size
build_order(balance, sig, bid, ask, tie_up) ==
    LET entry_price == IF sig.side = "buy" THEN ask ELSE bid
        \* nan > 0 is false
        stop_loss == IF ~is_nan(sig.stop_loss) /\ sig.stop_loss > 0
                     THEN sig.stop_loss ELSE 0
        risk_distance == Abs(entry_price - stop_loss)
        take_profit == IF is_nan(entry_price) THEN NaN
                       ELSE IF sig.side = "buy"
                       THEN entry_price + risk_distance * reward_risk_ratio
                       ELSE entry_price - risk_distance * reward_risk_ratio
        size == calculate_position_size(balance, entry_price, stop_loss, tie_up)
    IN  IF stop_loss = 0 THEN [order |-> None, reject |-> "no_stop_loss"]
        \* stop_loss >= nan and stop_loss <= nan are false
        ELSE IF sig.side = "buy" /\ ~is_nan(entry_price)
                /\ stop_loss >= entry_price
        THEN [order |-> None, reject |-> "stop_loss_side"]
        ELSE IF sig.side = "sell" /\ ~is_nan(entry_price)
                /\ stop_loss <= entry_price
        THEN [order |-> None, reject |-> "stop_loss_side"]
        ELSE IF size = 0 THEN [order |-> None, reject |-> "size"]
        ELSE [order |-> [side |-> sig.side,
                         entry_price |-> round8(entry_price, tie_up),
                         stop_loss |-> round8(stop_loss, tie_up),
                         take_profit |-> round8(take_profit, tie_up),
                         position_size |-> size],
              reject |-> ""]

\* process_signal after the day rollover: the flag it leaves, the value
\* it returns and the rejection it logs
gate_signal(balance, d, vol_halted, sig, bid, ask, tie_up) ==
    LET b == breaker_checks(balance, d, vol_halted)
        q == quote_checks(bid, ask)
        o == build_order(balance, sig, bid, ask, tie_up)
    IN  IF b.reject # ""
        THEN [daily_halted |-> b.daily_halted, order |-> None, reject |-> b.reject]
        ELSE IF q # ""
        THEN [daily_halted |-> b.daily_halted, order |-> None, reject |-> q]
        ELSE [daily_halted |-> b.daily_halted, order |-> o.order, reject |-> o.reject]

\* a record_fill that counts a fill of pnl = 0 as a loss
fill_recorded_zero_is_loss(balance, d, pnl) ==
    LET new_pnl == d.daily_pnl + pnl
    IN  [d EXCEPT !.daily_pnl = new_pnl,
                  !.consecutive_losses = IF pnl <= 0 THEN @ + 1 ELSE 0,
                  !.daily_halted = IF daily_limit_hit(balance, new_pnl) /\ ~@
                                   THEN TRUE ELSE @]

\* a record_fill whose breaker follows daily_pnl instead of latching
fill_recorded_unlatched(balance, d, pnl) ==
    LET new_pnl == d.daily_pnl + pnl
    IN  [d EXCEPT !.daily_pnl = new_pnl,
                  !.consecutive_losses = IF pnl < 0 THEN @ + 1 ELSE 0,
                  !.daily_halted = daily_limit_hit(balance, new_pnl)]

\* record_fill after the day rollover: the daily tracker it leaves
fill_recorded(balance, d, pnl) ==
    LET new_pnl == d.daily_pnl + pnl
    IN  [d EXCEPT !.daily_pnl = new_pnl,
                  !.consecutive_losses = IF pnl < 0 THEN @ + 1 ELSE 0,
                  !.daily_halted = IF daily_limit_hit(balance, new_pnl) /\ ~@
                                   THEN TRUE ELSE @]

(***************************************************************************)
(* PaperBroker                                                             *)
(***************************************************************************)
\* round(price * (1 + _COMMISSION_PCT), 8)
shift_up(price, tie_up) ==
    RoundDiv(price * (CommissionDen + CommissionNum), CommissionDen, tie_up)

\* round(price * (1 - _COMMISSION_PCT), 8)
shift_down(price, tie_up) ==
    RoundDiv(price * (CommissionDen - CommissionNum), CommissionDen, tie_up)

\* execute_order: the PaperPosition it builds
PaperPosition(id, o, tie_up) ==
    [id |-> id,
     side |-> o.side,
     entry_price |-> IF o.side = "buy" THEN shift_up(o.entry_price, tie_up)
                     ELSE shift_down(o.entry_price, tie_up),
     stop_loss |-> o.stop_loss,
     take_profit |-> o.take_profit,
     position_size |-> o.position_size]

\* a close that applies no exit commission
ClosedTrade_no_exit_commission(position, exit_price, res, tie_up) ==
    LET diff == IF position.side = "buy"
                THEN exit_price - position.entry_price
                ELSE position.entry_price - exit_price
    IN  [id |-> position.id,
         side |-> position.side,
         entry_price |-> position.entry_price,
         stop_loss |-> position.stop_loss,
         take_profit |-> position.take_profit,
         position_size |-> position.position_size,
         exit_price |-> exit_price,
         pnl |-> RoundDiv(diff * position.position_size, SizeScale, tie_up),
         result |-> res]

\* a close that takes the pnl of a sell by the formula of a buy
ClosedTrade_buy_formula(position, exit_price, res, tie_up) ==
    LET adjusted_exit == IF position.side = "buy"
                         THEN shift_down(exit_price, tie_up)
                         ELSE shift_up(exit_price, tie_up)
        diff == adjusted_exit - position.entry_price
    IN  [id |-> position.id,
         side |-> position.side,
         entry_price |-> position.entry_price,
         stop_loss |-> position.stop_loss,
         take_profit |-> position.take_profit,
         position_size |-> position.position_size,
         exit_price |-> adjusted_exit,
         pnl |-> RoundDiv(diff * position.position_size, SizeScale, tie_up),
         result |-> res]

\* close_position: the ClosedTrade it builds
ClosedTrade(position, exit_price, res, tie_up) ==
    LET adjusted_exit == IF position.side = "buy"
                         THEN shift_down(exit_price, tie_up)
                         ELSE shift_up(exit_price, tie_up)
        diff == IF position.side = "buy"
                THEN adjusted_exit - position.entry_price
                ELSE position.entry_price - adjusted_exit
    IN  [id |-> position.id,
         side |-> position.side,
         entry_price |-> position.entry_price,
         stop_loss |-> position.stop_loss,
         take_profit |-> position.take_profit,
         position_size |-> position.position_size,
         exit_price |-> adjusted_exit,
         pnl |-> RoundDiv(diff * position.position_size, SizeScale, tie_up),
         result |-> res]

\* p for p in active_positions if p.id != id
without_id(ps, id) ==
    SelectSeq(ps, LAMBDA p : p.id # id)

\* dd_pct, a fraction num / den standing for num / den * 100
dd_pct(peak, balance) ==
    IF peak > 0 THEN [num |-> peak - balance, den |-> peak]
    ELSE [num |-> 0, den |-> 1]

\* a > b for two such fractions
dd_greater(a, b) == a.num * b.den > b.num * a.den

\* a drawdown tracker that follows the current drawdown
drawdown_current(current, peak, balance) ==
    dd_pct(peak, balance)

\* close_position: _max_drawdown_pct after the close
drawdown_after(current, peak, balance) ==
    IF dd_greater(dd_pct(peak, balance), current) THEN dd_pct(peak, balance)
    ELSE current

\* the broker's state as one record
Broker ==
    [active_positions |-> active_positions,
     virtual_balance |-> virtual_balance,
     peak_balance |-> peak_balance,
     max_drawdown_pct |-> max_drawdown_pct,
     _gross_win |-> _gross_win,
     _gross_loss |-> _gross_loss,
     closed_trades |-> closed_trades,
     csv_lines |-> csv_lines]

\* a close_position that adds a losing pnl to the gross loss with its sign
closed_position_signed_loss(b, position, exit_price, res, tie_up) ==
    LET ct == ClosedTrade(position, exit_price, res, tie_up)
        balance == b.virtual_balance + ct.pnl
        peak == IF balance > b.peak_balance THEN balance ELSE b.peak_balance
    IN  [active_positions |-> without_id(b.active_positions, position.id),
         virtual_balance |-> balance,
         peak_balance |-> peak,
         max_drawdown_pct |-> drawdown_after(b.max_drawdown_pct, peak, balance),
         _gross_win |-> IF ct.pnl >= 0 THEN b._gross_win + ct.pnl
                        ELSE b._gross_win,
         _gross_loss |-> IF ct.pnl >= 0 THEN b._gross_loss
                         ELSE b._gross_loss + ct.pnl,
         closed_trades |-> Append(b.closed_trades, ct),
         csv_lines |-> b.csv_lines + 1]

\* close_position: the broker's state after the close
closed_position(b, position, exit_price, res, tie_up) ==
    LET ct == ClosedTrade(position, exit_price, res, tie_up)
        balance == b.virtual_balance + ct.pnl
        peak == IF balance > b.peak_balance THEN balance ELSE b.peak_balance
    IN  [active_positions |-> without_id(b.active_positions, position.id),
         virtual_balance |-> balance,
         peak_balance |-> peak,
         max_drawdown_pct |-> drawdown_after(b.max_drawdown_pct, peak, balance),
         _gross_win |-> IF ct.pnl >= 0 THEN b._gross_win + ct.pnl
                        ELSE b._gross_win,
         _gross_loss |-> IF ct.pnl >= 0 THEN b._gross_loss
                         ELSE b._gross_loss + Abs(ct.pnl),
         closed_trades |-> Append(b.closed_trades, ct),
         csv_lines |-> b.csv_lines + 1]

\* PositionMonitor: the result of the check of one position against the
\* last price (in quote steps), "" when neither level is hit
monitor_hit(p, price) ==
    IF p.side = "buy"
    THEN IF price <= p.stop_loss * QuoteGrid THEN "LOSS"
         ELSE IF price >= p.take_profit * QuoteGrid THEN "WIN"
         ELSE ""
    ELSE IF price >= p.stop_loss * QuoteGrid THEN "LOSS"
         ELSE IF price <= p.take_profit * QuoteGrid THEN "WIN"
         ELSE ""

\* PositionMonitor.check_positions(last_price) over the positions ps: the
\* broker's state after the closes and the ClosedTrades, in order
RECURSIVE check_positions(_, _, _, _)
check_positions(b, ps, price, tie_up) ==
    IF ps = <<>> THEN [broker |-> b, closed |-> <<>>]
    ELSE LET p == Head(ps)
             hit == monitor_hit(p, price)
             exit_price == IF hit = "LOSS" THEN p.stop_loss ELSE p.take_profit
             b1 == IF hit = "" THEN b
                   ELSE closed_position(b, p, exit_price, hit, tie_up)
             rest == check_positions(b1, Tail(ps), price, tie_up)
         IN  [broker |-> rest.broker,
              closed |-> IF hit = "" THEN rest.closed
                         ELSE <<b1.closed_trades[Len(b1.closed_trades)]>>
                                  \o rest.closed]

\* a pnl of the broker (in 0.00000001) in balance units
PnlUnit == (QuoteGrid * SizeScale) \div UnitQty

\* a fill recorded with the size of the pnl, without its sign
fill_pnl_unsigned(ct) == Abs(ct.pnl) * PnlUnit

\* the argument of risk.record_fill(ct.pnl), in balance units
fill_pnl(ct) == ct.pnl * PnlUnit

\* for ct in closed: risk.record_fill(ct.pnl): the daily tracker it leaves
RECURSIVE fills_recorded(_, _, _)
fills_recorded(balance, d, cts) ==
    IF cts = <<>> THEN d
    ELSE fills_recorded(balance,
                        fill_recorded(balance, d, fill_pnl(Head(cts))),
                        Tail(cts))

\* an orchestrator that executes every validated order
may_execute_always(o, positions) == o # None

\* run(): order is not None and paper_broker.active_positions is empty
may_execute(o, positions) == o # None /\ positions = <<>>

\* the tick of the drive loop takes the steps in the order of run(), with
\* the signal step before the position check
next_pc_signal_first(p) ==
    CASE p = "batch" -> "signal"
      [] p = "signal" -> "monitor"
      [] p = "monitor" -> "batch"

\* the tick of the drive loop: the step that follows step p in run()
next_pc(p) ==
    CASE p = "batch" -> "monitor"
      [] p = "monitor" -> "signal"
      [] p = "signal" -> "batch"

NoSignal == [side |-> "none", stop_loss |-> 0]

InitHunt ==
    /\ candles = <<>>
    /\ current_candle = None
    /\ candle_open_ts = 0
    /\ current_price = 0
    /\ h1_high = 0 /\ h1_low = 0 /\ h4_high = 0 /\ h4_low = 0
    /\ hunts = [name \in LevelNames |-> _HuntState(name)]
    /\ now = 0
    /\ nofi = 0
    /\ result = None
    /\ ticked = <<>>

\* RiskManager.__init__ on day 0, for a configured balance
InitRisk ==
    /\ account_balance \in Balances \cup RunBalances
    /\ volatility_halted = FALSE
    /\ today = 0
    /\ current_day = 0
    /\ daily_pnl = 0
    /\ consecutive_losses = 0
    /\ daily_halted = FALSE
    /\ metrics = None
    /\ signal = NoSignal
    /\ quote = <<0, 0>>
    /\ order = None
    /\ reject = ""

\* PaperBroker.__init__
InitBroker ==
    /\ active_positions = <<>>
    /\ virtual_balance \in PaperBalances
    /\ _initial_balance = virtual_balance
    /\ _gross_win = 0
    /\ _gross_loss = 0
    /\ peak_balance = virtual_balance
    /\ max_drawdown_pct = [num |-> 0, den |-> 1]
    /\ closed_trades = <<>>
    /\ next_id = 1
    /\ csv_rows_before \in EarlierRows
    /\ csv_lines = 1 + csv_rows_before

\* the configuration the components that a specification leaves alone are in
DefaultRisk == account_balance = 4000000
DefaultBroker == csv_rows_before = 0
\* the balances of the RiskManager on its own and in the drive loop
TestedRisk == account_balance \in Balances
RunRisk == account_balance \in RunBalances

\* stream_trades: retries = 0, before the first watch_trades
InitStream ==
    /\ retries = 0
    /\ delay = 0
    /\ stream = "watching"
    /\ history = <<>>

\* the subscriber task between two messages
Idle ==
    [symbol |-> "", live |-> FALSE, si_used |-> 0, changed |-> FALSE,
     yielded |-> {}, current |-> 0, dead |-> {}, steady |-> {}, ever |-> {},
     sends |-> 0, seq |-> 0, status |-> "idle"]

\* ConnectionManager.__init__ and the tasks before their first step
InitDash ==
    /\ _clients = <<>>
    /\ sockets = [ws \in Sockets |-> [state |-> "new", symbol |-> ""]]
    /\ broadcasting = Idle
    /\ delivered = [ws \in Sockets |-> 0]

\* run() 178-214 and TelemetryClient.connect: the loop is about to start;
\* telemetry is up or not, the regime was loaded and its refresher started
\* or not, and the mode is paper trading or not
InitLife ==
    /\ phase = "running"
    /\ raised = "none"
    /\ \/ refresh_task = "none" /\ regime = "unready"
       \/ refresh_task = "running" /\ regime \in Regimes
    /\ paper \in BOOLEAN
    /\ _enabled \in BOOLEAN
    /\ publish_failed = FALSE
    /\ shutdown = <<>>
    /\ trade_signal = None
    /\ trades = <<>>

\* paper trading without telemetry and without a market regime
DefaultLife ==
    /\ refresh_task = "none"
    /\ paper
    /\ ~_enabled

\* ImbalanceTracker.__init__
InitFeed ==
    /\ _trades = <<>>
    /\ wall = 0
    /\ market = None

\* run(): the loop waits for its first batch
InitRun ==
    /\ pc = "batch"
    /\ last_price = 0
    /\ calls = <<>>

Init ==
    /\ InitHunt
    /\ InitRisk
    /\ InitBroker
    /\ InitRun
    /\ InitFeed
    /\ InitStream
    /\ InitLife
    /\ InitDash
    /\ op = "init"

\* push_trade: the candle that a trade of a new bucket opens
opened_candle(price, amount, bucket) ==
    [side |-> "candle", o |-> price, h |-> price, l |-> price, c |-> price,
     v |-> amount, t |-> bucket]

\* a candle update that moves the close and leaves the extremes alone
updated_candle_close_only(c, price, amount) ==
    [c EXCEPT !.c = price, !.v = @ + amount]

\* push_trade: the current candle after a trade of its own bucket
updated_candle(c, price, amount) ==
    [c EXCEPT !.h = Max(@, price), !.l = Min(@, price), !.c = price,
              !.v = @ + amount]

\* LevelTracker.push_trade(trade)
push_trade(ts, price, amount) ==
    LET bucket == _bucket_ts(ts) IN
    /\ current_price' = price
    /\ IF current_candle = None \/ bucket # candle_open_ts
       THEN /\ IF current_candle # None
               THEN LET cs == ring_append(candles, current_candle)
                        r == _recompute_levels(cs,
                               [h1_high |-> h1_high, h1_low |-> h1_low,
                                h4_high |-> h4_high, h4_low |-> h4_low], hunts)
                    IN  /\ candles' = cs
                        /\ h1_high' = r.levels.h1_high
                        /\ h1_low' = r.levels.h1_low
                        /\ h4_high' = r.levels.h4_high
                        /\ h4_low' = r.levels.h4_low
                        /\ hunts' = r.hunts
               ELSE UNCHANGED <<candles, h1_high, h1_low, h4_high, h4_low, hunts>>
            /\ current_candle' = opened_candle(price, amount, bucket)
            /\ candle_open_ts' = bucket
       ELSE /\ current_candle' = updated_candle(current_candle, price, amount)
            /\ UNCHANGED <<candles, candle_open_ts, h1_high, h1_low,
                           h4_high, h4_low, hunts>>
    /\ op' = "push_trade"
    /\ UNCHANGED <<now, nofi, result, ticked>>

\* LevelTracker.check_hunt(nofi) at wall-clock time t
check_hunt(nf, t, tie_up) ==
    /\ now' = t
    /\ nofi' = nf
    /\ op' = "check_hunt"
    /\ IF current_price = 0
       THEN /\ result' = None
            /\ ticked' = <<>>
            /\ UNCHANGED hunts
       ELSE LET r == hunt_loop(1, hunts, <<>>, current_price, nf, t, tie_up)
            IN  /\ hunts' = r.hunts
                /\ result' = r.result
                /\ ticked' = r.ticked
    /\ UNCHANGED <<candles, current_candle, candle_open_ts, current_price,
                   h1_high, h1_low, h4_high, h4_low>>

(***************************************************************************)
(* The hunter under the drive loop of main.py: every batch is pushed into  *)
(* the LevelTracker and then polled once.  The tape has one trade in each  *)
(* of the minutes before MaxBucket and up to MaxTrades trades in minute    *)
(* MaxBucket; a batch is one trade.                                        *)
(***************************************************************************)
PushNewCandle ==
    \E price \in Prices, amount \in Amounts :
        LET ts == IF current_candle = None THEN 0
                  ELSE candle_open_ts + candle_interval_ms
        IN  /\ op # "push_trade"
            /\ ts \div candle_interval_ms <= MaxBucket
            /\ push_trade(ts, price, amount)
            /\ UNCHANGED <<riskVars, brokerVars, runVars, feedVars, dashVars, loopVars>>

PushSameCandle ==
    \E price \in Prices, amount \in Amounts :
        /\ op # "push_trade"
        /\ current_candle # None
        /\ candle_open_ts = MaxBucket * candle_interval_ms
        /\ current_candle.v < MaxTrades
        /\ push_trade(candle_open_ts, price, amount)
        /\ UNCHANGED <<riskVars, brokerVars, runVars, feedVars, dashVars, loopVars>>

CheckHunt ==
    \E nf \in NofiValues, dt \in TimeSteps, tie_up \in BOOLEAN :
        /\ op = "push_trade"
        /\ now + dt <= MaxNow
        /\ check_hunt(nf, now + dt, tie_up)
        /\ UNCHANGED <<riskVars, brokerVars, runVars, feedVars, dashVars, loopVars>>

NextHunt == PushNewCandle \/ PushSameCandle \/ CheckHunt

\* the LevelTracker beside a default RiskManager and PaperBroker
InitOfHunt == Init /\ DefaultRisk /\ DefaultBroker /\ DefaultLife

SpecHunt == InitOfHunt /\ [][NextHunt]_vars

(***************************************************************************)
(* The RiskManager under any order of its operations and of UTC midnights  *)
(***************************************************************************)
SetDaily(d) ==
    /\ current_day' = d.current_day
    /\ daily_pnl' = d.daily_pnl
    /\ consecutive_losses' = d.consecutive_losses
    /\ daily_halted' = d.daily_halted

\* a call that takes no signal and returns None
NoOrder ==
    /\ signal' = NoSignal
    /\ quote' = <<0, 0>>
    /\ order' = None
    /\ reject' = ""

\* 00:00 UTC passes
Midnight ==
    /\ today < MaxDay
    /\ today' = today + 1
    /\ op' = "midnight"
    /\ UNCHANGED <<account_balance, volatility_halted, current_day, daily_pnl,
                   consecutive_losses, daily_halted, metrics, signal, quote,
                   order, reject>>
    /\ UNCHANGED <<huntVars, brokerVars, runVars, feedVars, dashVars, loopVars>>

\* an update_metrics whose volatility breaker is never released
update_metrics_latched(z) ==
    /\ SetDaily(_check_day_rollover(DailyState, today))
    /\ volatility_halted' = (volatility_halted \/ z >= max_volatility_zscore)
    /\ metrics' = [volume_zscore |-> z]
    /\ op' = "update_metrics"
    /\ NoOrder
    /\ UNCHANGED <<account_balance, today>>

\* RiskManager.update_metrics(metrics) with metrics.volume_zscore = z
update_metrics(z) ==
    /\ SetDaily(_check_day_rollover(DailyState, today))
    /\ volatility_halted' = (z >= max_volatility_zscore)
    /\ metrics' = [volume_zscore |-> z]
    /\ op' = "update_metrics"
    /\ NoOrder
    /\ UNCHANGED <<account_balance, today>>

\* RiskManager.process_signal(sig, bid, ask)
process_signal(sig, bid, ask, tie_up) ==
    LET d == _check_day_rollover(DailyState, today)
        r == gate_signal(account_balance, d, volatility_halted, sig, bid, ask,
                         tie_up)
    IN  /\ SetDaily([d EXCEPT !.daily_halted = r.daily_halted])
        /\ order' = r.order
        /\ reject' = r.reject
        /\ metrics' = None
        /\ signal' = sig
        /\ quote' = <<bid, ask>>
        /\ op' = "process_signal"
        /\ UNCHANGED <<account_balance, volatility_halted, today>>

\* RiskManager.record_fill(pnl)
record_fill(pnl) ==
    /\ SetDaily(fill_recorded(account_balance,
                              _check_day_rollover(DailyState, today), pnl))
    /\ metrics' = None
    /\ op' = "record_fill"
    /\ NoOrder
    /\ UNCHANGED <<account_balance, volatility_halted, today>>

UpdateMetrics ==
    \E z \in ZScores : update_metrics(z) /\ UNCHANGED <<huntVars, brokerVars, runVars, feedVars, dashVars, loopVars>>

ProcessSignal ==
    \E side \in Sides, sl \in StopLosses, q \in Quotes, tie_up \in BOOLEAN :
        /\ process_signal([side |-> side, stop_loss |-> sl], q[1], q[2], tie_up)
        /\ UNCHANGED <<huntVars, brokerVars, runVars, feedVars, dashVars, loopVars>>

\* process_signal on arguments that hold a nan
ProcessNonFinite ==
    \E side \in Sides, sl \in NonFiniteStops, q \in NonFiniteQuotes,
       tie_up \in BOOLEAN :
        /\ is_nan(sl) \/ is_nan(q[1]) \/ is_nan(q[2])
        /\ process_signal([side |-> side, stop_loss |-> sl], q[1], q[2], tie_up)
        /\ UNCHANGED <<huntVars, brokerVars, runVars, feedVars, dashVars, loopVars>>

RecordFill ==
    \E k \in PnlSteps :
        LET pnl == k * (account_balance \div 200)
            d == _check_day_rollover(DailyState, today)
        IN  /\ d.daily_pnl + pnl >= -MaxLoss * (account_balance \div 200)
            /\ d.daily_pnl + pnl <= MaxGain * (account_balance \div 200)
            /\ record_fill(pnl)
            /\ UNCHANGED <<huntVars, brokerVars, runVars, feedVars, dashVars, loopVars>>

NextRisk == Midnight \/ UpdateMetrics \/ ProcessSignal \/ RecordFill

\* the RiskManager beside a default PaperBroker
InitOfRisk == Init /\ TestedRisk /\ DefaultBroker /\ DefaultLife

SpecRisk == InitOfRisk /\ [][NextRisk]_vars

\* the RiskManager on every float, the non-finite ones included
NextFloat == NextRisk \/ ProcessNonFinite

SpecFloat == InitOfRisk /\ [][NextFloat]_vars

(***************************************************************************)
(* The PaperBroker under any order of its operations                       *)
(***************************************************************************)
SetBroker(b) ==
    /\ active_positions' = b.active_positions
    /\ virtual_balance' = b.virtual_balance
    /\ peak_balance' = b.peak_balance
    /\ max_drawdown_pct' = b.max_drawdown_pct
    /\ _gross_win' = b._gross_win
    /\ _gross_loss' = b._gross_loss
    /\ closed_trades' = b.closed_trades
    /\ csv_lines' = b.csv_lines

\* an execute_order that also appends a row to the CSV file
execute_order_logs_row(o, tie_up) ==
    /\ active_positions' =
            Append(active_positions, PaperPosition(next_id, o, tie_up))
    /\ next_id' = next_id + 1
    /\ csv_lines' = csv_lines + 1
    /\ op' = "execute_order"
    /\ UNCHANGED <<virtual_balance, peak_balance, max_drawdown_pct,
                   _gross_win, _gross_loss,
                   closed_trades, csv_rows_before, _initial_balance>>

\* PaperBroker.execute_order(order)
execute_order(o, tie_up) ==
    /\ active_positions' =
            Append(active_positions, PaperPosition(next_id, o, tie_up))
    /\ next_id' = next_id + 1
    /\ op' = "execute_order"
    /\ UNCHANGED <<virtual_balance, peak_balance, max_drawdown_pct,
                   _gross_win, _gross_loss,
                   closed_trades, csv_rows_before, _initial_balance, csv_lines>>

\* PaperBroker.close_position(position, exit_price, result)
close_position(position, exit_price, res, tie_up) ==
    /\ SetBroker(closed_position(Broker, position, exit_price, res, tie_up))
    /\ op' = "close_position"
    /\ UNCHANGED <<next_id, csv_rows_before, _initial_balance>>

ExecuteOrder ==
    /\ Len(active_positions) < MaxOpen
    /\ Len(active_positions) + Len(closed_trades) < MaxClosed
    /\ \E o \in BrokerOrders, tie_up \in BOOLEAN : execute_order(o, tie_up)
    /\ UNCHANGED <<huntVars, riskVars, runVars, feedVars, dashVars, loopVars>>

ClosePosition ==
    /\ \E i \in 1..Len(active_positions), x \in ExitPrices,
          res \in TradeResults, tie_up \in BOOLEAN :
            /\ Abs(x - active_positions[i].entry_price) <= MaxMove
            /\ close_position(active_positions[i], x, res, tie_up)
    /\ UNCHANGED <<huntVars, riskVars, runVars, feedVars, dashVars, loopVars>>

NextBroker == ExecuteOrder \/ ClosePosition

\* the PaperBroker beside a default RiskManager
InitOfBroker == Init /\ DefaultRisk /\ DefaultLife

SpecBroker == InitOfBroker /\ [][NextBroker]_vars

(***************************************************************************)
(* The imbalance engine and the candles under the batches of the tape: a   *)
(* batch is empty or one trade stamped with the wall clock; it is pushed   *)
(* into the ImbalanceTracker and each of its trades into the LevelTracker  *)
(***************************************************************************)
\* main.py 217-223: tracker.push(trades), tracker.compute_metrics() and
\* strategy.on_data(trade) for a batch of one trade, the first of its
\* clock step
FeedBatch ==
    \E tr \in FeedTrades, tie_up \in BOOLEAN :
        LET t == [timestamp |-> wall, is_buy |-> tr[1], price |-> tr[2],
                  amount |-> tr[3]]
        IN  /\ IF _trades = <<>> THEN TRUE
               ELSE _trades[Len(_trades)].timestamp < wall
            /\ _trades' = push(_trades, <<t>>)
            /\ market' = compute_metrics(_trades', wall, tie_up)
            /\ push_trade(t.timestamp, t.price, t.amount)
            /\ UNCHANGED <<wall, riskVars, brokerVars, runVars, loopVars,
                           dashVars>>

\* main.py 217-223 for an empty batch
FeedNothing ==
    \E tie_up \in BOOLEAN :
        /\ _trades' = push(_trades, <<>>)
        /\ market' = compute_metrics(_trades', wall, tie_up)
        /\ op' = "compute_metrics"
        /\ UNCHANGED <<wall, huntVars, riskVars, brokerVars, runVars, loopVars,
                       dashVars>>

\* the wall clock advances
FeedClock ==
    /\ wall < MaxWall * FeedStep
    /\ wall' = wall + FeedStep
    /\ op' = "clock"
    /\ UNCHANGED <<_trades, market, huntVars, riskVars, brokerVars, runVars,
                   loopVars, dashVars>>

NextFeed == FeedBatch \/ FeedNothing \/ FeedClock

\* the data plane beside a default RiskManager and PaperBroker
InitOfFeed == Init /\ DefaultRisk /\ DefaultBroker /\ DefaultLife

SpecFeed == InitOfFeed /\ [][NextFeed]_vars

(***************************************************************************)
(* ExchangeClient.stream_trades: the reconnecting trade stream             *)
(***************************************************************************)
\* a backoff that grows by BACKOFF_BASE_SECONDS a retry
backoff_linear(n) == BACKOFF_BASE_SECONDS * n

\* delay = BACKOFF_BASE_SECONDS ** retries
backoff(n) == BACKOFF_BASE_SECONDS ^ n

\* watch_trades returns a batch: the count is reset and the batch yielded
yield_batch ==
    /\ stream = "watching"
    /\ Len(history) < MaxEvents
    /\ retries' = (IF retries > 0 THEN 0 ELSE retries)
    /\ history' = Append(history, "batch")
    /\ UNCHANGED <<delay, stream>>

\* watch_trades raises NetworkError or ExchangeNotAvailable
watch_fails ==
    /\ stream = "watching"
    /\ Len(history) < MaxEvents
    /\ retries' = retries + 1
    /\ history' = Append(history, "fail")
    /\ IF retries' > MAX_RECONNECT_RETRIES
       THEN /\ stream' = "raised"
            /\ UNCHANGED delay
       ELSE /\ delay' = backoff(retries')
            /\ stream' = "sleeping"

\* asyncio.sleep(delay) returns and the while loop calls watch_trades again
sleep_done ==
    /\ stream = "sleeping"
    /\ retries <= MAX_RECONNECT_RETRIES
    /\ stream' = "watching"
    /\ UNCHANGED <<retries, delay, history>>

StreamBatch ==
    /\ yield_batch
    /\ op' = "yield"
    /\ UNCHANGED <<huntVars, riskVars, brokerVars, runVars, feedVars, dashVars,
                   teleVars, lifeVars>>

StreamFail ==
    /\ watch_fails
    /\ op' = "watch_fails"
    /\ UNCHANGED <<huntVars, riskVars, brokerVars, runVars, feedVars, dashVars,
                   teleVars, lifeVars>>

StreamWake ==
    /\ sleep_done
    /\ op' = "sleep_done"
    /\ UNCHANGED <<huntVars, riskVars, brokerVars, runVars, feedVars, dashVars,
                   teleVars, lifeVars>>

NextStream == StreamBatch \/ StreamFail \/ StreamWake

\* the stream beside a default RiskManager and PaperBroker
InitOfStream == Init /\ DefaultRisk /\ DefaultBroker /\ DefaultLife

SpecStream == InitOfStream /\ [][NextStream]_vars

(***************************************************************************)
(* The drive loop of run() in paper mode: one tick is the steps batch,     *)
(* monitor, signal.  The Hunter is represented by the signal that          *)
(* generate_signal and the regime gate hand over.                          *)
(***************************************************************************)
\* main.py 216-223: a batch arrives, the metrics go to the RiskManager
RunUpdate ==
    /\ pc = "batch"
    /\ \E z \in RunZScores, price \in LastPrices :
        /\ update_metrics(z)
        /\ last_price' = price
        /\ calls' = <<<<"update_metrics", z>>>>
    /\ pc' = next_pc(pc)
    /\ UNCHANGED <<huntVars, brokerVars, feedVars, dashVars, loopVars>>

\* main.py 228-231: the open positions are checked against the price and
\* every ClosedTrade is recorded
monitor_positions(price) ==
    /\ \E tie_up \in BOOLEAN :
        LET r == check_positions(Broker, active_positions, price, tie_up)
        IN  /\ SetBroker(r.broker)
            /\ IF r.closed = <<>>
               THEN UNCHANGED riskVars
               ELSE /\ SetDaily(fills_recorded(account_balance,
                            _check_day_rollover(DailyState, today),
                            r.closed))
                    /\ metrics' = None
                    /\ NoOrder
                    /\ UNCHANGED <<account_balance, volatility_halted, today>>
            /\ calls' = calls \o <<<<"check_positions", price>>>>
                    \o [i \in 1..Len(r.closed) |->
                            <<"record_fill", fill_pnl(r.closed[i])>>]
    /\ op' = "check_positions"
    /\ UNCHANGED <<next_id, csv_rows_before, _initial_balance>>

\* main.py 225-244: the open positions are checked against the last price
\* and every ClosedTrade is recorded
RunMonitor ==
    /\ pc = "monitor"
    /\ monitor_positions(last_price)
    /\ pc' = next_pc(pc)
    /\ UNCHANGED <<last_price, huntVars, feedVars, dashVars, loopVars>>

\* main.py 246-284: the signal, when there is one, goes through the
\* RiskManager, and a validated order is executed when no position is open
RunSignal ==
    /\ pc = "signal"
    /\ \/ /\ calls' = calls \o <<<<"generate_signal", 0>>>>
          /\ op' = "generate_signal"
          /\ UNCHANGED <<riskVars, brokerVars>>
       \/ /\ \E sig \in RunSignals, q \in RunQuotes, tie_up \in BOOLEAN :
                /\ process_signal(sig, q[1], q[2], tie_up)
                /\ IF may_execute(order', active_positions)
                   THEN /\ next_id <= MaxEntries
                        /\ active_positions' =
                            Append(active_positions,
                                   PaperPosition(next_id, order', tie_up))
                        /\ next_id' = next_id + 1
                        /\ calls' = calls \o <<<<"generate_signal", 1>>,
                                               <<"process_signal", 1>>,
                                               <<"execute_order", next_id>>>>
                   ELSE /\ UNCHANGED <<active_positions, next_id>>
                        /\ calls' = calls \o <<<<"generate_signal", 1>>,
                                               <<"process_signal", 1>>>>
             /\ UNCHANGED <<virtual_balance, peak_balance, max_drawdown_pct,
                   _gross_win, _gross_loss,
                         closed_trades, csv_rows_before, _initial_balance, csv_lines>>
    /\ pc' = next_pc(pc)
    /\ UNCHANGED <<last_price, huntVars, feedVars, dashVars, loopVars>>

NextRun == Midnight \/ RunUpdate \/ RunMonitor \/ RunSignal

\* the drive loop starts on a fresh trade log
InitOfRun == Init /\ RunRisk /\ DefaultBroker /\ DefaultLife

SpecRun == InitOfRun /\ [][NextRun]_vars

(***************************************************************************)
(* run(): the drive loop on the trade stream, with the telemetry           *)
(* publishes, the regime refresher, the shutdown signal and the finally    *)
(* block                                                                   *)
(***************************************************************************)
\* a broadcast_event that lets a failed publish out
broadcast_event_propagates(enabled, outcome) ==
    [raised |-> enabled /\ outcome = "publish_failed",
     did |-> IF enabled THEN outcome ELSE "publish_skipped"]

\* TelemetryClient.broadcast_event: nothing is published when telemetry is
\* disabled, and the exception of a failed publish is swallowed
broadcast_event(enabled, outcome) ==
    [raised |-> FALSE,
     did |-> IF enabled THEN outcome ELSE "publish_skipped"]

\* a stream that hands over a batch whatever the drive task is doing
stream_ready_always(p) == TRUE

\* async for: the next batch is asked for at the top of the loop body
stream_ready(p) == p = "batch"

\* the awaits at which the drive task is suspended in the event loop
suspended(p) ==
    p \in {"batch", "exit_publish", "signal_publish", "quote",
           "entry_publish", "pulse_publish", "level_publish"}

\* what a broadcast_event did, as the operation performed last
PublishOps == PublishOutcomes \cup {"publish_skipped"}

\* the broadcast_event calls of the loop body
PublishPoints ==
    {"exit_publish", "signal_publish", "entry_publish", "pulse_publish",
     "level_publish"}

\* main.py 257-258: regime.ready, is_extreme_trend and not
\* is_signal_allowed(side)
regime_blocks(r, side) == r = "bear" /\ side = "buy"

\* main.py 257-263: the extreme-trend override drops the signal
override(p, r, sig) ==
    IF p = "signal_publish" THEN regime_blocks(r, sig.side) ELSE FALSE

\* the step of the loop body that follows a broadcast_event
after_publish(p, blocked) ==
    CASE p = "exit_publish" -> "signal"
      [] p = "signal_publish" -> (IF blocked THEN "pulse" ELSE "quote")
      [] p = "entry_publish" -> "pulse"
      [] p = "pulse_publish" -> "level_publish"
      [] OTHER -> "batch"

\* the batches the stream has yielded
RECURSIVE batches(_)
batches(h) ==
    IF h = <<>> THEN 0
    ELSE (IF Head(h) = "batch" THEN 1 ELSE 0) + batches(Tail(h))

\* an exception leaves the try block of run()
raise(exc) ==
    /\ phase' = "finally"
    /\ raised' = exc

\* a finally block that closes the exchange before the telemetry
finally_next_client_first(p) ==
    CASE p = "finally" -> "stats"
      [] p = "stats" -> "client"
      [] p = "client" -> "telemetry"
      [] p = "telemetry" -> "exited"
      [] OTHER -> p

\* main.py 323-334: the order of the finally block
finally_next(p) ==
    CASE p = "finally" -> "stats"
      [] p = "stats" -> "telemetry"
      [] p = "telemetry" -> "client"
      [] p = "client" -> "exited"
      [] OTHER -> p

\* a final report that closes the open positions
final_stats_closing(b) == [b EXCEPT !.active_positions = <<>>]

\* main.py 332: get_stats() reads the broker
final_stats(b) == b

\* main.py 216-220: the stream yields a batch; it is pushed into the
\* ImbalanceTracker and its metrics go to the RiskManager
LoopBatch ==
    /\ phase = "running"
    /\ stream_ready(pc)
    /\ batches(history) < MaxBatches
    /\ yield_batch
    /\ \E batch \in LoopBatches, z \in LoopZScores, tie_up \in BOOLEAN :
        /\ trades' = [i \in 1..Len(batch) |->
                         [timestamp |-> wall, is_buy |-> batch[i][1],
                          price |-> batch[i][2], amount |-> batch[i][3]]]
        /\ _trades' = push(_trades, trades')
        /\ market' = compute_metrics(_trades', wall, tie_up)
        /\ update_metrics(z)
        /\ calls' = <<<<"update_metrics", z>>>>
    /\ pc' = "on_data"
    /\ trade_signal' = None
    /\ publish_failed' = FALSE
    /\ UNCHANGED <<wall, last_price, huntVars, brokerVars, _enabled, phase,
                   raised, refresh_task, regime, paper, shutdown, dashVars>>

\* main.py 222-223: strategy.on_data(trade) for the trades of the batch
LoopOnData ==
    /\ phase = "running"
    /\ pc = "on_data"
    /\ IF trades = <<>>
       THEN /\ op' = "on_data"
            /\ UNCHANGED huntVars
       ELSE push_trade(trades[1].timestamp, trades[1].price, trades[1].amount)
    /\ pc' = "monitor"
    /\ UNCHANGED <<last_price, calls, riskVars, brokerVars, feedVars, dashVars,
                   loopVars>>

\* main.py 226-231: in paper mode the last price of the batch is taken and
\* the open positions are checked against it
LoopMonitor ==
    /\ phase = "running"
    /\ pc = "monitor"
    /\ IF ~paper
       THEN /\ pc' = "signal"
            /\ op' = "no_monitor"
            /\ UNCHANGED <<last_price, calls, riskVars, brokerVars, phase,
                           raised>>
       ELSE IF trades = <<>>
       THEN /\ raise("IndexError")
            /\ op' = "raise"
            /\ UNCHANGED <<pc, last_price, calls, riskVars, brokerVars>>
       ELSE /\ last_price' = trades[Len(trades)].price
            /\ monitor_positions(last_price')
            /\ pc' = (IF closed_trades' # closed_trades THEN "exit_publish"
                      ELSE "signal")
            /\ UNCHANGED <<phase, raised>>
    /\ UNCHANGED <<huntVars, feedVars, dashVars, streamVars, teleVars, refresh_task,
                   regime, paper, shutdown, trade_signal, trades>>

\* main.py 244: strategy.generate_signal(metrics) returns a signal or None
LoopSignal ==
    /\ phase = "running"
    /\ pc = "signal"
    /\ \/ /\ trade_signal' = None
          /\ pc' = "pulse"
          /\ calls' = calls \o <<<<"generate_signal", 0>>>>
       \/ \E sig \in LoopSignals :
            /\ trade_signal' = sig
            /\ pc' = "signal_publish"
            /\ calls' = calls \o <<<<"generate_signal", 1>>>>
    /\ op' = "generate_signal"
    /\ UNCHANGED <<last_price, huntVars, riskVars, brokerVars, feedVars, dashVars,
                   streamVars, teleVars, phase, raised, refresh_task, regime,
                   paper, shutdown, trades>>

\* main.py 232, 247, 275, 301, 311: a broadcast_event of the loop body
\* returns; after SIGNAL_GEN the extreme-trend override reads the regime
LoopPublish ==
    /\ phase = "running"
    /\ pc \in PublishPoints
    /\ \E outcome \in PublishOutcomes :
        LET r == broadcast_event(_enabled, outcome)
        IN  /\ op' = r.did
            /\ publish_failed' = (publish_failed \/ r.did = "publish_failed")
            /\ IF r.raised
               THEN /\ raise("PublishError")
                    /\ UNCHANGED <<pc, trade_signal>>
               ELSE /\ UNCHANGED <<phase, raised>>
                    /\ trade_signal' = (IF override(pc, regime, trade_signal)
                                        THEN None ELSE trade_signal)
                    /\ pc' = after_publish(
                                 pc, override(pc, regime, trade_signal))
    /\ UNCHANGED <<_enabled, last_price, calls, huntVars, riskVars,
                   brokerVars, feedVars, dashVars, streamVars, refresh_task, regime,
                   paper, shutdown, trades>>

\* main.py 266-288: get_bid_ask returns, the signal goes through the
\* RiskManager, and a validated order is executed in paper mode when no
\* position is open
LoopQuote ==
    /\ phase = "running"
    /\ pc = "quote"
    /\ \E q \in RunQuotes, tie_up \in BOOLEAN :
        /\ process_signal(trade_signal, q[1], q[2], tie_up)
        /\ IF paper /\ may_execute(order', active_positions)
           THEN /\ next_id <= MaxEntries
                /\ active_positions' =
                       Append(active_positions,
                              PaperPosition(next_id, order', tie_up))
                /\ next_id' = next_id + 1
                /\ calls' = calls \o <<<<"process_signal", 1>>,
                                       <<"execute_order", next_id>>>>
                /\ pc' = "entry_publish"
           ELSE /\ UNCHANGED <<active_positions, next_id>>
                /\ calls' = calls \o <<<<"process_signal", 1>>>>
                /\ pc' = "pulse"
    /\ UNCHANGED <<virtual_balance, peak_balance, max_drawdown_pct,
                   _gross_win, _gross_loss,
                   closed_trades, csv_rows_before, _initial_balance, csv_lines, last_price,
                   huntVars, feedVars, dashVars, loopVars>>

\* main.py 266: fetch_ticker raises
LoopQuoteFails ==
    /\ phase = "running"
    /\ pc = "quote"
    /\ raise("NetworkError")
    /\ op' = "raise"
    /\ UNCHANGED <<runVars, huntVars, riskVars, brokerVars, feedVars, dashVars,
                   streamVars, teleVars, refresh_task, regime, paper,
                   shutdown, trade_signal, trades>>

\* main.py 291-298: the pulse is due or not
LoopPulse ==
    /\ phase = "running"
    /\ pc = "pulse"
    /\ \E due \in BOOLEAN :
        pc' = (IF due /\ Len(_trades) > 0 THEN "pulse_publish" ELSE "batch")
    /\ op' = "pulse"
    /\ UNCHANGED <<last_price, calls, huntVars, riskVars, brokerVars,
                   feedVars, dashVars, loopVars>>

\* exchange_client.py 87-98 under the loop: watch_trades fails, and the
\* failure past the last retry leaves the loop
LoopFail ==
    /\ phase = "running"
    /\ pc = "batch"
    /\ watch_fails
    /\ IF stream' = "raised" THEN raise("NetworkError")
       ELSE UNCHANGED <<phase, raised>>
    /\ op' = "watch_fails"
    /\ UNCHANGED <<runVars, huntVars, riskVars, brokerVars, feedVars, dashVars,
                   teleVars, refresh_task, regime, paper, shutdown,
                   trade_signal, trades>>

\* exchange_client.py 98: the backoff sleep is over
LoopWake ==
    /\ phase = "running"
    /\ pc = "batch"
    /\ sleep_done
    /\ op' = "sleep_done"
    /\ UNCHANGED <<runVars, huntVars, riskVars, brokerVars, feedVars, dashVars,
                   teleVars, lifeVars>>

\* main.py 355-357: SIGINT or SIGTERM cancels the drive task, which gets
\* CancelledError at the await it is suspended at
ShutdownSignal ==
    /\ phase = "running"
    /\ suspended(pc)
    /\ raise("CancelledError")
    /\ op' = "cancel"
    /\ UNCHANGED <<runVars, huntVars, riskVars, brokerVars, feedVars, dashVars,
                   streamVars, teleVars, refresh_task, regime, paper,
                   shutdown, trade_signal, trades>>

\* main.py 158-173: the refresher wakes while the drive task is suspended
\* and writes a new snapshot
RefreshRegime ==
    /\ phase = "running"
    /\ suspended(pc)
    /\ refresh_task = "running"
    /\ \E r \in Regimes :
        /\ r # regime
        /\ regime' = r
    /\ op' = "refresh"
    /\ UNCHANGED <<runVars, huntVars, riskVars, brokerVars, feedVars, dashVars,
                   streamVars, teleVars, phase, raised, refresh_task, paper,
                   shutdown, trade_signal, trades>>

\* main.py 324-329: the refresher is cancelled and awaited
FinallyRefresh ==
    /\ phase = "finally"
    /\ IF refresh_task # "none"
       THEN /\ refresh_task' = "cancelled"
            /\ shutdown' = Append(shutdown, "refresh_task")
       ELSE UNCHANGED <<refresh_task, shutdown>>
    /\ phase' = finally_next(phase)
    /\ op' = "finally"
    /\ UNCHANGED <<runVars, huntVars, riskVars, brokerVars, feedVars, dashVars,
                   streamVars, teleVars, raised, regime, paper, trade_signal,
                   trades>>

\* main.py 330-332: the final paper stats
FinallyStats ==
    /\ phase = "stats"
    /\ IF paper
       THEN /\ SetBroker(final_stats(Broker))
            /\ shutdown' = Append(shutdown, "final_stats")
       ELSE UNCHANGED <<active_positions, virtual_balance, peak_balance,
                        max_drawdown_pct, _gross_win, _gross_loss, closed_trades, csv_lines, shutdown>>
    /\ phase' = finally_next(phase)
    /\ op' = "finally"
    /\ UNCHANGED <<next_id, csv_rows_before, _initial_balance, runVars, huntVars, riskVars,
                   feedVars, dashVars, streamVars, teleVars, raised, refresh_task,
                   regime, paper, trade_signal, trades>>

\* main.py 333: telemetry.close()
FinallyTelemetry ==
    /\ phase = "telemetry"
    /\ shutdown' = Append(shutdown, "telemetry.close")
    /\ phase' = finally_next(phase)
    /\ op' = "finally"
    /\ UNCHANGED <<runVars, huntVars, riskVars, brokerVars, feedVars, dashVars,
                   streamVars, teleVars, raised, refresh_task, regime, paper,
                   trade_signal, trades>>

\* main.py 334: client.close()
FinallyClient ==
    /\ phase = "client"
    /\ shutdown' = Append(shutdown, "client.close")
    /\ phase' = finally_next(phase)
    /\ op' = "finally"
    /\ UNCHANGED <<runVars, huntVars, riskVars, brokerVars, feedVars, dashVars,
                   streamVars, teleVars, raised, refresh_task, regime, paper,
                   trade_signal, trades>>

Finally == FinallyRefresh \/ FinallyStats \/ FinallyTelemetry \/ FinallyClient

NextLoop ==
    \/ LoopBatch \/ LoopOnData \/ LoopMonitor \/ LoopSignal \/ LoopPublish
    \/ LoopQuote \/ LoopQuoteFails \/ LoopPulse \/ LoopFail \/ LoopWake
    \/ ShutdownSignal \/ RefreshRegime \/ Finally

\* run() at the top of its loop, on a fresh trade log
InitOfLoop == Init /\ RunRisk /\ DefaultBroker

SpecLoop == InitOfLoop /\ [][NextLoop]_vars

\* the event loop runs the finally block to its end
SpecLoopLive == SpecLoop /\ WF_vars(Finally)

(***************************************************************************)
(* Properties of the hunter                                                *)
(***************************************************************************)
IsPoll == op' = "check_hunt" /\ now' # now
Evaluated(seq, name) == \E i \in 1..Len(seq) : seq[i] = name
NoDuplicates(seq) == \A i, j \in 1..Len(seq) : seq[i] = seq[j] => i = j

\* the elapsed-time conditions of the transition table, and the buffer
\* test, written out in whole price steps and ticks
Elapsed(h, t) == t - h.sweep_start
BreaksOut(h, price) ==
    IF h.is_high THEN (price - h.level_price) * BufferDen > price * BufferNum
                 ELSE (h.level_price - price) * BufferDen > price * BufferNum
SnapsBack(h, price) ==
    IF h.is_high THEN price < h.level_price ELSE price > h.level_price
Confirms(h, nf) ==
    IF h.is_high THEN nf <= -nofi_threshold ELSE nf >= nofi_threshold
\* r (in units of 0.01) is x (in price steps) rounded to 2 decimals
IsRounded2(r, x) == 2 * Abs(r * PriceGrid - x) <= PriceGrid

ListedTransitions ==
    {<<_SCANNING, _SWEEPING>>, <<_SWEEPING, _SCANNING>>,
     <<_SWEEPING, _CONFIRMING>>, <<_CONFIRMING, _SCANNING>>,
     <<_CONFIRMING, _SWEEPING>>, <<_CONFIRMING, _COOLDOWN>>,
     <<_COOLDOWN, _SCANNING>>}

\* C1: every change of a level's state is made by a check_hunt call that
\* evaluated that level, and is one of the seven listed transitions, each
\* under the condition of its row of the table; a call evaluates a level at
\* most once.
C1_ListedTransitionsOnly ==
    [][\A name \in LevelNames :
         LET h == hunts[name]
             g == hunts'[name]
             p == current_price
         IN  /\ NoDuplicates(ticked')
             /\ h.state # g.state =>
                  /\ IsPoll
                  /\ Evaluated(ticked', name)
                  /\ <<h.state, g.state>> \in ListedTransitions
                  /\ (h.state = _SCANNING) => BreaksOut(h, p)
                  /\ (h.state = _SWEEPING /\ g.state = _SCANNING) =>
                        Elapsed(h, now') > sweep_timeout_sec
                  /\ (h.state = _SWEEPING /\ g.state = _CONFIRMING) =>
                        SnapsBack(h, p) /\ Elapsed(h, now') <= sweep_timeout_sec
                  /\ (h.state = _CONFIRMING /\ g.state = _SCANNING) =>
                        Elapsed(h, now') > sweep_timeout_sec + confirm_timeout_sec
                  /\ (h.state = _CONFIRMING /\ g.state = _SWEEPING) =>
                        BreaksOut(h, p)
                  /\ (h.state = _CONFIRMING /\ g.state = _COOLDOWN) =>
                        Confirms(h, nofi')
                  /\ (h.state = _COOLDOWN) => now' >= h.cooldown_until
      ]_vars

\* C1 witness: a poll has just taken a level into COOLDOWN (the level went
\* SCANNING -> SWEEPING -> CONFIRMING -> COOLDOWN) while another level is
\* in SWEEPING
C1_Witness ==
    /\ op = "check_hunt"
    /\ \E name, other \in LevelNames :
         /\ hunts[name].state = _COOLDOWN
         /\ hunts[name].cooldown_until = now + cooldown_sec
         /\ Evaluated(ticked, name)
         /\ hunts[other].state = _SWEEPING

\* C3: an operation that starts with a level in SWEEPING, CONFIRMING or
\* COOLDOWN leaves that level's level_price and opposite_price as they were.
C3_PinnedWhileHunting ==
    [][\A name \in LevelNames :
         hunts[name].state # _SCANNING =>
            /\ hunts'[name].level_price = hunts[name].level_price
            /\ hunts'[name].opposite_price = hunts[name].opposite_price
      ]_vars

\* the Level Engine's current extremes for a level: <<level, opposite>>
EngineLevel(name) ==
    CASE name = "H1_High" -> <<h1_high, h1_low>>
      [] name = "H1_Low"  -> <<h1_low, h1_high>>
      [] name = "H4_High" -> <<h4_high, h4_low>>
      [] name = "H4_Low"  -> <<h4_low, h4_high>>

\* C3 witness: a candle close has just recomputed extremes that differ from
\* the level and the opposite that an active hunt keeps pinned
C3_Witness ==
    /\ op = "push_trade"
    /\ Len(candles) = candle_window
    /\ \E name \in LevelNames :
         /\ hunts[name].state \in {_SWEEPING, _CONFIRMING, _COOLDOWN}
         /\ hunts[name].level_price # EngineLevel(name)[1]
         /\ hunts[name].opposite_price # EngineLevel(name)[2]

\* the extreme of two prices on the far side of a level
Extreme(h, a, b) == IF h.is_high THEN Max(a, b) ELSE Min(a, b)

\* a poll takes level name from CONFIRMING to COOLDOWN
EntersCooldown(name) ==
    hunts[name].state = _CONFIRMING /\ hunts'[name].state = _COOLDOWN

\* C2: a poll returns a result only when it takes a level from CONFIRMING
\* to COOLDOWN, and then exactly that level's: sell under nofi <= -threshold
\* for a high level, buy under nofi >= +threshold for a low one, with
\* cooldown_until = now + cooldown_sec, the pinned level_price and the
\* wick_extreme (both rounded to 2 decimals); wick_extreme is the extreme of
\* the prices polled while SWEEPING; an evaluated level that sees a break-out,
\* then a snap-back, then a confirming nOFI without a new break-out, all
\* inside the timeouts, goes SCANNING -> SWEEPING -> CONFIRMING -> COOLDOWN
\* and returns its result on the third of these polls.
C2_ResultOnlyOnConfirmation ==
    [][/\ ~IsPoll => result' = result
       /\ IsPoll =>
            /\ result' # None => \E name \in LevelNames : EntersCooldown(name)
            /\ \A name \in LevelNames :
                 LET h == hunts[name]
                     g == hunts'[name]
                     p == current_price
                 IN  /\ EntersCooldown(name) =>
                          /\ result' # None
                          /\ result'.level_name = name
                          /\ result'.side = (IF h.is_high THEN "sell" ELSE "buy")
                          /\ h.is_high => nofi' <= -nofi_threshold
                          /\ ~h.is_high => nofi' >= nofi_threshold
                          /\ g.cooldown_until = now' + cooldown_sec
                          /\ IsRounded2(result'.level_price, h.level_price)
                          /\ IsRounded2(result'.wick_extreme, h.wick_extreme)
                          /\ g.wick_extreme = h.wick_extreme
                     /\ (Evaluated(ticked', name) /\ g.state = _SWEEPING) =>
                          g.wick_extreme = (IF h.state = _SCANNING THEN p
                                            ELSE Extreme(h, h.wick_extreme, p))
                     /\ (h.state = _SWEEPING /\ g.state = _CONFIRMING) =>
                          g.wick_extreme = h.wick_extreme
                     /\ (Evaluated(ticked', name) /\ h.state = _SCANNING
                           /\ BreaksOut(h, p)) =>
                          g.state = _SWEEPING /\ g.sweep_start = now'
                     /\ (Evaluated(ticked', name) /\ h.state = _SWEEPING
                           /\ Elapsed(h, now') <= sweep_timeout_sec
                           /\ SnapsBack(h, p)) =>
                          g.state = _CONFIRMING
                     /\ (Evaluated(ticked', name) /\ h.state = _CONFIRMING
                           /\ Elapsed(h, now') <= sweep_timeout_sec + confirm_timeout_sec
                           /\ ~BreaksOut(h, p) /\ Confirms(h, nofi')) =>
                          EntersCooldown(name) /\ result'.level_name = name
      ]_vars

\* C2 witness: the poll has just returned the sell of H4_High, two polls
\* after its break-out
C2_Witness ==
    /\ op = "check_hunt"
    /\ result # None
    /\ result.side = "sell"
    /\ result.level_name = "H4_High"
    /\ hunts["H4_High"].state = _COOLDOWN
    /\ hunts["H4_High"].sweep_start = now - 2
    /\ hunts["H4_High"].wick_extreme > hunts["H4_High"].level_price

\* would level name confirm on a poll at price p, nOFI nf and time t
WouldConfirm(name, p, nf, t) ==
    LET h == hunts[name]
    IN  /\ p # 0
        /\ h.level_price # 0
        /\ h.state = _CONFIRMING
        /\ Elapsed(h, t) <= sweep_timeout_sec + confirm_timeout_sec
        /\ ~BreaksOut(h, p)
        /\ Confirms(h, nf)

\* C4: a poll returns the result of the earliest level, in the order
\* H1_High, H1_Low, H4_High, H4_Low, that would confirm on it, and None when
\* no level would; the levels before it have been evaluated, the levels
\* after it have not and are unchanged.
C4_FirstConfirmedOnly ==
    [][IsPoll =>
         LET W == {i \in 1..4 :
                     WouldConfirm(LevelOrder[i], current_price, nofi', now')}
         IN  IF W = {} THEN result' = None
             ELSE LET first == CHOOSE i \in W : \A j \in W : i <= j
                  IN  /\ result' # None
                      /\ result'.level_name = LevelOrder[first]
                      /\ \A j \in 1..4 :
                           /\ j > first =>
                                /\ hunts'[LevelOrder[j]] = hunts[LevelOrder[j]]
                                /\ ~Evaluated(ticked', LevelOrder[j])
                           /\ (j <= first /\ hunts[LevelOrder[j]].level_price # 0) =>
                                Evaluated(ticked', LevelOrder[j])
      ]_vars

\* C4 witness: the poll has returned the result of one level while a later
\* level, which would have confirmed on the same poll, is still CONFIRMING
C4_Witness ==
    /\ op = "check_hunt"
    /\ result # None
    /\ \E j \in 1..4 :
         /\ j > LevelIndex(result.level_name)
         /\ ~Evaluated(ticked, LevelOrder[j])
         /\ WouldConfirm(LevelOrder[j], current_price, nofi, now)

\* C5: a level in COOLDOWN keeps cooldown_until, returns no result, stays
\* in COOLDOWN on every operation but a poll that evaluates it at
\* now >= cooldown_until, and is in SCANNING after such a poll; a level
\* returns a result only on a step from CONFIRMING; and no level that has
\* been given a cooldown_until is outside COOLDOWN before that time.
C5_CooldownHolds ==
    /\ [](\A name \in LevelNames :
            now < hunts[name].cooldown_until => hunts[name].state = _COOLDOWN)
    /\ [][\A name \in LevelNames :
            LET h == hunts[name]
                g == hunts'[name]
                expires == /\ IsPoll
                           /\ Evaluated(ticked', name)
                           /\ now' >= h.cooldown_until
            IN  /\ h.state = _COOLDOWN =>
                     /\ g.cooldown_until = h.cooldown_until
                     /\ g.state = (IF expires THEN _SCANNING ELSE _COOLDOWN)
                     /\ IsPoll => (result' = None \/ result'.level_name # name)
                /\ (IsPoll /\ result' # None /\ result'.level_name = name) =>
                     /\ h.state = _CONFIRMING
                     /\ g.cooldown_until = now' + cooldown_sec
         ]_vars

\* C5 witness: a level that returned a result is back in SCANNING, on the
\* first poll at or after its cooldown_until
C5_Witness ==
    /\ op = "check_hunt"
    /\ \E name \in LevelNames :
         /\ hunts[name].state = _SCANNING
         /\ hunts[name].cooldown_until > 0
         /\ now >= hunts[name].cooldown_until
         /\ Evaluated(ticked, name)

\* C6 as stated: in every result range_low <= fib_tp <= range_high and
\* fib_tp is exactly the mean of the result's range_low and range_high.
C6_FibIsExactMidpoint ==
    result # None =>
        /\ result.range_low <= result.fib_tp
        /\ result.fib_tp <= result.range_high
        /\ 2 * result.fib_tp = result.range_low + result.range_high

\* C6 amended: in every result range_low <= fib_tp <= range_high; range_high,
\* range_low and fib_tp are the maximum, the minimum and the mean of the
\* emitting level's level_price and opposite_price, each rounded to 2
\* decimals on its own, so fib_tp is within 0.01 of the mean of the result's
\* range_low and range_high.
C6_FibIsRoundedMidpoint ==
    result # None =>
        LET h == hunts[result.level_name]
            hi == Max(h.level_price, h.opposite_price)
            lo == Min(h.level_price, h.opposite_price)
        IN  /\ result.range_low <= result.fib_tp
            /\ result.fib_tp <= result.range_high
            /\ IsRounded2(result.range_high, hi)
            /\ IsRounded2(result.range_low, lo)
            \* |fib_tp - (lo + hi) / 2| <= 0.005
            /\ 2 * Abs(2 * PriceGrid * result.fib_tp - (lo + hi)) <= 2 * PriceGrid
            \* |fib_tp - (range_low + range_high) / 2| <= 0.01
            /\ Abs(2 * result.fib_tp - (result.range_low + result.range_high)) <= 2

\* C6 witness: a result whose fib_tp is not the mean of its range
C6_Witness ==
    /\ result # None
    /\ 2 * result.fib_tp # result.range_low + result.range_high
    /\ result.range_low < result.range_high

(***************************************************************************)
(* Properties of the RiskManager                                           *)
(***************************************************************************)
\* every daily tracker on day 0, reachable or not
DailyRecords ==
    [current_day : {0},
     daily_pnl : {k * (account_balance \div 200) : k \in (-MaxLoss)..MaxGain},
     consecutive_losses : 0..max_consecutive_losses,
     daily_halted : BOOLEAN]

\* the first check, in the order of the list, that the call fails
FirstFailedCheck(d, sig, bid, ask) ==
    LET entry == IF sig.side = "buy" THEN ask ELSE bid
        dist == Abs(entry - sig.stop_loss)
    IN  IF d.daily_halted THEN "daily_halted"
        ELSE IF daily_limit_hit(account_balance, d.daily_pnl) THEN "daily_limit"
        ELSE IF d.consecutive_losses >= max_consecutive_losses
        THEN "consecutive_losses"
        ELSE IF volatility_halted THEN "volatility"
        ELSE IF bid <= 0 \/ ask <= 0 THEN "bid_ask"
        ELSE IF (ask - bid) * 2 * SpreadDen > (bid + ask) * SpreadNum
        THEN "spread"
        ELSE IF sig.stop_loss <= 0 THEN "no_stop_loss"
        ELSE IF sig.side = "buy" /\ ~(sig.stop_loss < entry) THEN "stop_loss_side"
        ELSE IF sig.side = "sell" /\ ~(sig.stop_loss > entry) THEN "stop_loss_side"
        ELSE IF account_balance * RiskNum * UnitQty
                    < min_order_qty * RiskDen * dist
        THEN "size"
        ELSE ""

LaterChecks ==
    {"consecutive_losses", "volatility", "bid_ask", "spread", "no_stop_loss",
     "stop_loss_side", "size"}

\* C7: process_signal rolls the day over and then returns None at the first
\* failed check of daily_halted, daily-loss limit, consecutive losses,
\* volatility halt, bid/ask positivity, spread, stop-loss validity and
\* sizing; when the daily-loss limit is hit (by the daily_pnl the checks
\* see, that is after the rollover) it leaves daily_halted = true whatever
\* the signal and the quote are; a call that fails at the consecutive-loss
\* check or later leaves daily_halted, daily_pnl and consecutive_losses as
\* the rollover step left them, so unchanged when the date has not changed.
C7_ChecksInOrder ==
    /\ [](\A d \in DailyRecords, vol_halted \in BOOLEAN :
            LET r == breaker_checks(account_balance, d, vol_halted)
            IN  /\ daily_limit_hit(account_balance, d.daily_pnl)
                    => r.daily_halted /\ r.reject # ""
                /\ r.reject \in LaterChecks \cup {""}
                    => r.daily_halted = d.daily_halted)
    /\ [][op' = "process_signal" =>
                LET d == _check_day_rollover(DailyState, today)
                IN  /\ reject' = FirstFailedCheck(d, signal', quote'[1], quote'[2])
                    /\ (order' = None) <=> (reject' # "")
                    /\ daily_limit_hit(account_balance, d.daily_pnl)
                        => daily_halted'
                    /\ reject' \in LaterChecks
                        => /\ daily_halted' = d.daily_halted
                           /\ daily_pnl' = d.daily_pnl
                           /\ consecutive_losses' = d.consecutive_losses
                    /\ reject' \in LaterChecks /\ today = current_day
                        => UNCHANGED <<daily_halted, daily_pnl,
                                       consecutive_losses>>]_vars

\* a call at the daily-loss limit, with a spread that is too wide, has
\* been rejected by the daily breaker
C7_Witness ==
    /\ op = "process_signal"
    /\ daily_limit_hit(account_balance, daily_pnl)
    /\ quote = <<1998, 2000>>
    /\ daily_halted
    /\ reject = "daily_halted"
    /\ order = None

\* C8: once record_fill calls have brought daily_pnl to the daily-loss
\* limit the breaker is set; it stays set until an operation sees a new
\* UTC date, whatever later fills do to daily_pnl, and while it is set
\* every process_signal returns None; the first operation after the date
\* changed releases it, and process_signal is then not rejected by it.
C8_DailyBreakerLatched ==
    /\ [](daily_limit_hit(account_balance, daily_pnl) => daily_halted)
    /\ [][/\ daily_halted /\ today = current_day => daily_halted'
          /\ daily_halted /\ today = current_day /\ op' = "process_signal"
                => order' = None /\ reject' = "daily_halted"
          /\ today # current_day /\ op' # "midnight"
                => /\ current_day' = today
                   /\ op' # "record_fill" => ~daily_halted'
                   /\ op' = "process_signal"
                        => reject' \notin {"daily_halted", "daily_limit"}]_vars

\* the breaker is set, later winning fills have brought daily_pnl back
\* above the limit and a signal has been rejected all the same
C8_Witness ==
    /\ op = "process_signal"
    /\ daily_halted
    /\ ~daily_limit_hit(account_balance, daily_pnl)
    /\ today = current_day
    /\ reject = "daily_halted"
    /\ order = None

\* a signal has been validated on the day after the breaker's day
C8_Released ==
    /\ op = "process_signal"
    /\ current_day = 1
    /\ ~daily_halted
    /\ order # None

\* C9: every ValidatedOrder has, for a buy, stop_loss < entry_price <
\* take_profit with entry_price = ask, for a sell, take_profit <
\* entry_price < stop_loss with entry_price = bid, and in both cases
\* |take_profit - entry_price| = reward_risk_ratio * |entry_price - stop_loss|.
C9_OrderGeometry ==
    order # None =>
        /\ order.side = "buy" =>
            /\ order.stop_loss < order.entry_price
            /\ order.entry_price < order.take_profit
            /\ order.entry_price * QuoteGrid = quote[2]
        /\ order.side = "sell" =>
            /\ order.take_profit < order.entry_price
            /\ order.entry_price < order.stop_loss
            /\ order.entry_price * QuoteGrid = quote[1]
        /\ Abs(order.take_profit - order.entry_price)
            = reward_risk_ratio * Abs(order.entry_price - order.stop_loss)

\* C10: every ValidatedOrder has
\* min_order_qty <= position_size <= account_balance / entry_price.
C10_SizeWithinBounds ==
    order # None =>
        /\ min_order_qty <= order.position_size
        /\ order.position_size * order.entry_price * QuoteGrid
            <= account_balance * UnitQty

\* the daily tracker as the rollover check of the next operation leaves it
Rolled == _check_day_rollover(DailyState, today)

RiskCalls == {"update_metrics", "process_signal", "record_fill"}

\* C11 as claimed: after every record_fill(pnl) with pnl < 0,
\* consecutive_losses is strictly greater than before the call, and after
\* every record_fill(pnl) with pnl >= 0 it is 0, also for the first risk
\* operation after the UTC date changed.
C11_LossesStrictlyIncrease ==
    [][op' = "record_fill" =>
        LET pnl == daily_pnl' - Rolled.daily_pnl
        IN  /\ pnl < 0 => consecutive_losses' > consecutive_losses
            /\ pnl >= 0 => consecutive_losses' = 0]_vars

\* C11 amended: after a record_fill(pnl) with pnl < 0, consecutive_losses
\* is one more than the rollover check of the call left it: strictly
\* greater than before when the UTC date has not changed, and 1 when the
\* call is the first risk operation after the date changed; after a
\* record_fill(pnl) with pnl >= 0 it is 0.
C11_LossesCountedAfterRollover ==
    [][op' = "record_fill" =>
        LET pnl == daily_pnl' - Rolled.daily_pnl
        IN  /\ pnl < 0 => consecutive_losses' = Rolled.consecutive_losses + 1
            /\ pnl < 0 /\ today = current_day
                => consecutive_losses' > consecutive_losses
            /\ pnl < 0 /\ today # current_day => consecutive_losses' = 1
            /\ pnl >= 0 => consecutive_losses' = 0]_vars

\* a loss recorded on day 1 stands at one consecutive loss
C11_Witness ==
    /\ op = "record_fill"
    /\ current_day = 1
    /\ daily_pnl < 0
    /\ consecutive_losses = 1

\* C12: an update_metrics, process_signal or record_fill that sees a UTC
\* date different from current_day sets current_day to the date and runs
\* the rest of the operation on daily_pnl = 0, consecutive_losses = 0,
\* daily_halted = false; when the date is unchanged the rollover check
\* resets nothing; a rollover touches neither volatility_halted nor
\* account_balance.
C12_RolloverResets ==
    [][/\ op' \in RiskCalls /\ today # current_day =>
            /\ current_day' = today
            /\ op' \in {"update_metrics", "process_signal"} =>
                daily_pnl' = 0 /\ consecutive_losses' = 0 /\ ~daily_halted'
            /\ op' = "record_fill" =>
                /\ consecutive_losses' = IF daily_pnl' < 0 THEN 1 ELSE 0
                /\ daily_halted' = daily_limit_hit(account_balance, daily_pnl')
       /\ op' \in RiskCalls /\ today = current_day =>
            /\ current_day' = current_day
            /\ daily_halted => daily_halted'
            /\ op' = "update_metrics" =>
                UNCHANGED <<daily_pnl, consecutive_losses, daily_halted>>
            /\ op' = "process_signal" =>
                UNCHANGED <<daily_pnl, consecutive_losses>>
            /\ op' = "record_fill" =>
                consecutive_losses' \in {0, consecutive_losses + 1}
       /\ op' \in {"process_signal", "record_fill"} =>
            UNCHANGED volatility_halted
       /\ UNCHANGED account_balance]_vars

\* a signal has been rejected by the volatility breaker alone on day 1,
\* after the tracker of day 0 was reset
C12_Witness ==
    /\ op = "process_signal"
    /\ today = 1
    /\ current_day = 1
    /\ volatility_halted
    /\ reject = "volatility"
    /\ daily_pnl = 0
    /\ consecutive_losses = 0
    /\ ~daily_halted

SpreadTooWide(bid, ask) ==
    (ask - bid) * 2 * SpreadDen > (ask + bid) * SpreadNum

\* C14: process_signal returns None when bid <= 0 or ask <= 0 and when the
\* spread (ask - bid) / ((ask + bid) / 2) is strictly greater than
\* max_spread_pct; the spread guard rejects nothing else, so not a spread
\* equal to max_spread_pct; a rejection by either guard leaves the risk
\* state as the rollover check of the call left it.
C14_QuoteGuards ==
    [][op' = "process_signal" =>
        LET bid == quote'[1]
            ask == quote'[2]
        IN  /\ bid <= 0 \/ ask <= 0 => order' = None
            /\ bid > 0 /\ ask > 0 /\ SpreadTooWide(bid, ask) => order' = None
            /\ reject' = "bid_ask" => bid <= 0 \/ ask <= 0
            /\ reject' = "spread" =>
                bid > 0 /\ ask > 0 /\ SpreadTooWide(bid, ask)
            /\ reject' \in {"bid_ask", "spread"} =>
                /\ daily_pnl' = Rolled.daily_pnl
                /\ consecutive_losses' = Rolled.consecutive_losses
                /\ daily_halted' = Rolled.daily_halted
                /\ UNCHANGED <<volatility_halted, account_balance>>
                /\ today = current_day =>
                    UNCHANGED <<current_day, daily_pnl, consecutive_losses,
                                daily_halted>>]_vars

\* an order has been validated at a spread equal to max_spread_pct
C14_Witness ==
    /\ op = "process_signal"
    /\ quote = <<1999, 2001>>
    /\ (quote[2] - quote[1]) * 2 * SpreadDen = (quote[2] + quote[1]) * SpreadNum
    /\ order # None

(***************************************************************************)
(* Properties of the PaperBroker                                           *)
(***************************************************************************)
\* the drawdown of the current balance from the current peak
CurrentDrawdown == dd_pct(peak_balance, virtual_balance)

\* C18: max_drawdown_pct never decreases over execute_order and
\* close_position calls, and after every close it is at least
\* (peak_balance - virtual_balance) / peak_balance * 100.
C18_DrawdownMonotonic ==
    /\ [][~dd_greater(max_drawdown_pct, max_drawdown_pct')]_vars
    /\ [](op = "close_position" =>
            ~dd_greater(CurrentDrawdown, max_drawdown_pct))

\* after a loss and a later gain the recorded maximum stands above the
\* current drawdown
C18_Witness ==
    /\ op = "close_position"
    /\ Len(closed_trades) = 2
    /\ max_drawdown_pct.num > 0
    /\ dd_greater(max_drawdown_pct, CurrentDrawdown)

\* C19 as claimed: the CSV file has one line per closed trade plus the
\* header, for every broker construction.
C19_LinesAreClosedPlusHeader ==
    csv_lines = Len(closed_trades) + 1

\* C19 amended: the CSV file has the lines it had after construction (the
\* header, and the rows an earlier run left) plus one line per closed
\* trade; opening a position appends nothing.
C19_LinesAreEarlierPlusClosed ==
    /\ [](csv_lines = 1 + csv_rows_before + Len(closed_trades))
    /\ [][op' = "execute_order" => UNCHANGED csv_lines]_vars
    /\ [][op' = "close_position" => csv_lines' = csv_lines + 1]_vars

\* two trades closed on a file that held two rows of an earlier run
C19_Witness ==
    /\ csv_rows_before = 2
    /\ Len(closed_trades) = 2
    /\ csv_lines = 5

\* a close of position p that is a round trip at order price P: p was
\* opened by an order at P and is closed at exit price P
RoundTrip(p, ct, P) ==
    /\ \E t \in BOOLEAN :
        p.entry_price = PaperPosition(p.id, [p EXCEPT !.entry_price = P], t).entry_price
    /\ \E t \in BOOLEAN :
        ct.exit_price = ClosedTrade(p, P, ct.result, t).exit_price

\* position_size in quarters of one unit of the base currency
Quarters(size) == size \div (SizeScale \div 4)

\* pnl = -P * (2 * commission) * S up to the rounding of the two shifted
\* prices and of the pnl to 8 decimals: |pnl + 2cPS| <= S * 1e-8 + 0.5e-8
TwoCommissions(ct, P) ==
    Abs(4 * CommissionDen * ct.pnl
            + 2 * CommissionNum * P * Quarters(ct.position_size))
        <= CommissionDen * Quarters(ct.position_size) + 2 * CommissionDen

\* the close that the step performs, when it is a close
JustClosed == closed_trades'[Len(closed_trades')]

OrderPrices == {o.entry_price : o \in BrokerOrders}

\* C20 as claimed: a round trip at an unchanged price P yields
\* pnl = -P * (2 * commission) * S up to rounding, and always loses.
C20_RoundTripAlwaysLoses ==
    [][op' = "close_position" =>
        \A i \in 1..Len(active_positions), P \in OrderPrices :
            /\ active_positions[i].id = JustClosed.id
            /\ RoundTrip(active_positions[i], JustClosed, P)
            => TwoCommissions(JustClosed, P) /\ JustClosed.pnl < 0]_vars

\* C20 amended: a round trip at an unchanged price P yields
\* pnl = -P * (2 * commission) * S up to rounding and never gains; it
\* loses whenever two commissions exceed the rounding, and yields 0 when
\* the rounding to 8 decimals absorbs them.
C20_RoundTripNeverGains ==
    [][op' = "close_position" =>
        \A i \in 1..Len(active_positions), P \in OrderPrices :
            /\ active_positions[i].id = JustClosed.id
            /\ RoundTrip(active_positions[i], JustClosed, P)
            => /\ TwoCommissions(JustClosed, P)
               /\ JustClosed.pnl <= 0
               /\ 2 * CommissionNum * P * Quarters(JustClosed.position_size)
                    > CommissionDen * Quarters(JustClosed.position_size)
                        + 2 * CommissionDen
                  => JustClosed.pnl < 0]_vars

\* a buy at 20000 closed at 20000 has lost two commissions of 10 each on
\* half a unit
C20_Witness ==
    /\ op = "close_position"
    /\ closed_trades # <<>>
    /\ LET ct == closed_trades[Len(closed_trades)]
       IN  /\ ct.side = "buy"
           /\ ct.entry_price = 20010
           /\ ct.exit_price = 19990
           /\ ct.pnl = -10


(***************************************************************************)
(* Properties of the drive loop                                            *)
(***************************************************************************)
\* the tick so far holds a call of a before a call of b
Before(a, b) ==
    \E i, j \in 1..Len(calls) : i < j /\ calls[i][1] = a /\ calls[j][1] = b

\* the tick so far holds a call of a
Called(a) == \E i \in 1..Len(calls) : calls[i][1] = a

\* C15 as claimed: within each tick the RiskManager's operations come in the
\* order update_metrics, process_signal, record_fill: no record_fill of a
\* tick comes before the process_signal of that tick.
C15_FillAfterSignal ==
    /\ ~Before("process_signal", "update_metrics")
    /\ ~Before("record_fill", "update_metrics")
    /\ ~Before("record_fill", "process_signal")

\* C15: within each tick the RiskManager's operations come in the order
\* update_metrics, record_fill, process_signal: a tick starts with
\* update_metrics and no process_signal of a tick comes before a record_fill
\* of that tick.
C15_FillBeforeSignal ==
    /\ calls # <<>> => calls[1][1] = "update_metrics"
    /\ ~Before("process_signal", "update_metrics")
    /\ ~Before("record_fill", "update_metrics")
    /\ ~Before("process_signal", "record_fill")

C15_Witness ==
    /\ Before("update_metrics", "record_fill")
    /\ Before("record_fill", "process_signal")

\* the ClosedTrades that a step adds to the broker
NewlyClosed ==
    SubSeq(closed_trades', Len(closed_trades) + 1, Len(closed_trades'))

\* C16: in paper mode the positions are checked against the last trade price
\* of the batch right after update_metrics and before the hunter is polled;
\* record_fill is called once per ClosedTrade, in order, with the pnl of the
\* trade, before any process_signal of the tick; a loss closed on the tick
\* is in the daily record that gates the signal of the tick, and a
\* validated order is executed on the tick on which the position before it
\* was closed.
C16_MonitorBeforeSignal ==
    [][/\ (pc = "monitor" /\ calls' # calls) =>
            LET d == _check_day_rollover(DailyState, today)
                n == Len(NewlyClosed)
            IN  /\ calls[Len(calls)][1] = "update_metrics"
                /\ Len(calls') = Len(calls) + 1 + n
                /\ calls'[Len(calls) + 1] = <<"check_positions", last_price>>
                /\ \A i \in 1..n :
                     calls'[Len(calls) + 1 + i]
                         = <<"record_fill", NewlyClosed[i].pnl * PnlUnit>>
                /\ ~\E i \in 1..Len(calls') :
                     calls'[i][1] \in {"generate_signal", "process_signal"}
                /\ (n > 0 /\ NewlyClosed[n].pnl < 0) =>
                     /\ consecutive_losses' > d.consecutive_losses
                     /\ daily_pnl' < d.daily_pnl
                /\ (n > 0 /\ NewlyClosed[n].pnl >= 0) =>
                     consecutive_losses' = 0
       /\ (pc = "signal" /\ op' = "process_signal") =>
            /\ (/\ today = current_day
                /\ \/ daily_halted
                   \/ daily_limit_hit(account_balance, daily_pnl)
                   \/ consecutive_losses >= max_consecutive_losses)
               => /\ order' = None
                  /\ active_positions' = active_positions
            /\ (order' # None /\ active_positions = <<>>) =>
                  /\ Len(active_positions') = 1
                  /\ active_positions'[1].id = next_id]_vars

C16_Witness ==
    /\ \E i, j \in 1..Len(calls) :
          /\ i < j
          /\ calls[i][1] = "record_fill" /\ calls[i][2] < 0
          /\ calls[j][1] = "execute_order"
    /\ consecutive_losses = 2
    /\ Len(active_positions) = 1

\* C17: in paper mode a validated order is executed only when the broker
\* has no active position, so the broker holds at most one position in every
\* state of the drive loop, and a validated order that arrives while a
\* position is open changes nothing in the broker.
C17_OnePositionAtMost ==
    [][/\ Len(active_positions') <= 1
       /\ (pc = "signal" /\ op' = "process_signal" /\ order' # None
               /\ active_positions # <<>>) =>
            /\ UNCHANGED brokerVars
            /\ ~\E i \in 1..Len(calls') : calls'[i][1] = "execute_order"
       /\ active_positions' # active_positions /\ active_positions' # <<>> =>
            active_positions = <<>>]_vars

C17_Witness ==
    /\ op = "process_signal"
    /\ order # None
    /\ active_positions # <<>>
    /\ Called("process_signal")
    /\ ~Called("execute_order")

(***************************************************************************)
(* Properties of the candles                                               *)
(***************************************************************************)
\* a candle whose extremes enclose its open and close
well_formed(c) ==
    /\ c.l <= Min(c.o, c.c)
    /\ Min(c.o, c.c) <= Max(c.o, c.c)
    /\ Max(c.o, c.c) <= c.h
    /\ c.v >= 0

\* the trades that the tape can hand to push_trade in the current state
TapeStamps == {0, candle_open_ts, candle_open_ts + candle_interval_ms}

\* C28: every candle of the ring and the current candle have
\* low <= min(open, close) <= max(open, close) <= high and volume >= 0; a
\* trade whose bucket differs from the open_ts of the current candle appends
\* that candle to the ring once and opens a candle with open = high = low =
\* close = the price of the trade and volume = its amount; a trade of the
\* same bucket appends nothing.
C28_CandlesWellFormed ==
    [][/\ \A i \in 1..Len(candles') : well_formed(candles'[i])
       /\ current_candle' # None => well_formed(current_candle')
       /\ \A ts \in TapeStamps, price \in Prices, amount \in Amounts :
            push_trade(ts, price, amount) =>
               IF current_candle # None /\ _bucket_ts(ts) # candle_open_ts
               THEN /\ Len(candles') = Min(Len(candles) + 1, candle_window)
                    /\ candles'[Len(candles')] = current_candle
                    /\ \A i \in 1..(Len(candles') - 1) :
                         candles'[i] = candles[Len(candles) - Len(candles') + 1 + i]
                    /\ current_candle'.o = price /\ current_candle'.h = price
                    /\ current_candle'.l = price /\ current_candle'.c = price
                    /\ current_candle'.v = amount
                    /\ current_candle'.t = _bucket_ts(ts)
               ELSE candles' = candles]_vars

C28_Witness ==
    /\ Len(candles) = candle_window
    /\ current_candle # None
    /\ current_candle.l < Min(current_candle.o, current_candle.c)
    /\ current_candle.c > current_candle.o
    /\ current_candle.v > 2

(***************************************************************************)
(* Properties of the validation of a signal                                *)
(***************************************************************************)
\* the arguments of the last process_signal hold a number that is not finite
NonFiniteArgument ==
    is_nan(signal.stop_loss) \/ is_nan(quote[1]) \/ is_nan(quote[2])

\* the stop-loss of the last process_signal is missing or on the wrong side
\* of the entry
InvalidStop ==
    \/ is_nan(signal.stop_loss)
    \/ signal.stop_loss <= 0
    \/ /\ signal.side = "buy" /\ ~is_nan(quote[2])
       /\ signal.stop_loss >= quote[2]
    \/ /\ signal.side = "sell" /\ ~is_nan(quote[1])
       /\ signal.stop_loss <= quote[1]

\* C27: process_signal returns None for a signal whose stop-loss is missing
\* or not positive, for a buy with stop_loss >= ask, for a sell with
\* stop_loss <= bid and for arguments that are not finite; the rejection
\* leaves daily_pnl, consecutive_losses, daily_halted (as the rollover
\* check of the call left them) and volatility_halted unchanged.
C27_InvalidSignalRejected ==
    [][op' = "process_signal" =>
         LET d == _check_day_rollover(DailyState, today)
         IN  (InvalidStop' \/ NonFiniteArgument') =>
                /\ order' = None
                /\ reject' \in {"no_stop_loss", "stop_loss_side", "bid_ask",
                               "spread"} =>
                      /\ DailyState' = d
                      /\ volatility_halted' = volatility_halted]_vars

(***************************************************************************)
(* Properties of the imbalance engine                                      *)
(***************************************************************************)
\* the volume of one side among the trades of the ring no older than the
\* cutoff
RECURSIVE windowed_volume(_, _, _)
windowed_volume(ring, cutoff, buy) ==
    IF ring = <<>> THEN 0
    ELSE (IF Head(ring).timestamp >= cutoff /\ Head(ring).is_buy = buy
          THEN Head(ring).amount ELSE 0)
             + windowed_volume(Tail(ring), cutoff, buy)

\* the buy and the sell volume of the nOFI window at the wall clock
BuyVolume == windowed_volume(_trades, wall - nofi_window_ms, TRUE)
SellVolume == windowed_volume(_trades, wall - nofi_window_ms, FALSE)

\* the metrics are those of the ring and the clock of this state
MetricsFresh == market # None /\ op \in {"push_trade", "compute_metrics"}

\* exactly one side of the window has no volume
OneSided == (BuyVolume = 0) # (SellVolume = 0)

\* C29 as stated: the nOFI of compute_metrics lies in [-1, 1], is 0 when the
\* window has no volume, and is 1 in magnitude exactly when one side alone
\* has no volume
C29_UnitIffOneSided ==
    MetricsFresh =>
        /\ market.nofi >= -NofiScale /\ market.nofi <= NofiScale
        /\ (BuyVolume + SellVolume = 0 => market.nofi = 0)
        /\ (Abs(market.nofi) = NofiScale <=> OneSided)

\* C29: the nOFI of compute_metrics lies in [-1, 1], is 0 when the window
\* has no volume, is 1 in magnitude when one side alone has no volume, and
\* is 1 in magnitude only when the imbalance |v_buy - v_sell| / total is at
\* least 0.99995, the least ratio that round(nofi, 4) takes to 1
C29_NofiBounded ==
    MetricsFresh =>
        /\ market.nofi >= -NofiScale /\ market.nofi <= NofiScale
        /\ (BuyVolume + SellVolume = 0 => market.nofi = 0)
        /\ (OneSided => Abs(market.nofi) = NofiScale)
        /\ (Abs(market.nofi) = NofiScale =>
               /\ BuyVolume + SellVolume > 0
               /\ 2 * Min(BuyVolume, SellVolume) * 2 * NofiScale
                      <= BuyVolume + SellVolume)

\* a window of two or more trades with buys alone, and an nOFI of 1
C29_Witness ==
    /\ MetricsFresh
    /\ Len(_window(_trades, wall - nofi_window_ms)) >= 2
    /\ BuyVolume > 0
    /\ SellVolume = 0
    /\ market.nofi = NofiScale

\* the trade ring is the arrival order's last max_buffer_size entries
ring_kept(old, new, size) ==
    \/ new = old
    \/ /\ new # <<>>
       /\ SubSeq(new, 1, Len(new) - 1) =
              (IF Len(old) >= size THEN Tail(old) ELSE old)

\* C30: the trade ring never holds more than max_buffer_size entries and
\* the candle ring never more than candle_window; an append to a full ring
\* drops the oldest entry and keeps the others in their arrival order
C30_RingsBounded ==
    [][/\ Len(_trades') <= max_buffer_size
       /\ Len(candles') <= candle_window
       /\ ring_kept(_trades, _trades', max_buffer_size)
       /\ ring_kept(candles, candles', candle_window)
       /\ _trades' # _trades => _trades'[Len(_trades')].timestamp = wall
       /\ candles' # candles => candles'[Len(candles')] = current_candle]_vars

\* both rings are full and have dropped their first entries
C30_Witness ==
    /\ Len(_trades) = max_buffer_size
    /\ Len(candles) = candle_window
    /\ _trades[1].timestamp > 0
    /\ candles[1].t > 0
    /\ current_candle # None
    /\ current_candle.t = candles[1].t + candle_window * candle_interval_ms
    /\ _trades[Len(_trades)].timestamp =
           _trades[1].timestamp + (max_buffer_size - 1) * FeedStep

(***************************************************************************)
(* Properties of the trade stream                                          *)
(***************************************************************************)
\* the failures at the end of the history, since the last batch
RECURSIVE trailing_fails(_)
trailing_fails(h) ==
    IF h = <<>> THEN 0
    ELSE IF h[Len(h)] = "batch" THEN 0
    ELSE 1 + trailing_fails(SubSeq(h, 1, Len(h) - 1))

\* C21: the k-th consecutive failure (k = 1..5) is followed by a sleep of
\* 2^k seconds before the stream is retried; a batch resets the retry count
\* to 0 and is yielded with a count within 0..5; the stream raises exactly
\* on the failure that follows 5 consecutive retries without a batch
C21_Backoff ==
    [][LET k == trailing_fails(history') IN
       /\ (history' # history /\ history'[Len(history')] = "fail") =>
              IF k <= MAX_RECONNECT_RETRIES
              THEN stream' = "sleeping" /\ delay' = 2 ^ k /\ retries' = k
              ELSE stream' = "raised"
       /\ (history' # history /\ history'[Len(history')] = "batch") =>
              /\ retries \in 0..MAX_RECONNECT_RETRIES
              /\ retries' = 0
              /\ stream' = "watching"
       /\ (stream' = "raised" /\ stream # "raised") =>
              /\ history' = Append(history, "fail")
              /\ k = MAX_RECONNECT_RETRIES + 1
       /\ stream = "raised" => UNCHANGED streamVars]_vars

\* the stream has raised after a batch and six failures in a row, the last
\* sleep having been one of 32 seconds
C21_Witness ==
    /\ stream = "raised"
    /\ Len(history) > MAX_RECONNECT_RETRIES + 1
    /\ history[Len(history) - MAX_RECONNECT_RETRIES - 1] = "batch"
    /\ delay = 32
    /\ retries = MAX_RECONNECT_RETRIES + 1

(***************************************************************************)
(* Properties of the drive loop and of its shutdown                        *)
(***************************************************************************)
\* the hunter, the RiskManager, the PaperBroker and the ImbalanceTracker
coreVars == <<huntVars, riskVars, brokerVars, feedVars>>

\* the steps of the finally block in their order, for the refresher and the
\* mode the run ends with
FinallyLog ==
    (IF refresh_task = "none" THEN <<>> ELSE <<"refresh_task">>)
        \o (IF paper THEN <<"final_stats">> ELSE <<>>)
        \o <<"telemetry.close", "client.close">>

\* the shutdown path has run to completion
ShutdownComplete ==
    /\ phase = "exited"
    /\ refresh_task # "running"
    /\ shutdown = FinallyLog

\* C22: when the stream raises past its last retry the error leaves the
\* batch loop, no further batch is processed, and the finally block runs to
\* its end: the refresher is cancelled and awaited, the final paper stats
\* are reported, the telemetry and then the exchange connection are closed
C22_FatalStreamShutsDown ==
    /\ [][(stream' = "raised" /\ stream # "raised") =>
              /\ phase' = "finally"
              /\ raised' = "NetworkError"]_vars
    /\ [][stream = "raised" =>
              /\ UNCHANGED <<coreVars, streamVars, pc, last_price, calls,
                             trades, raised>>
              /\ phase' # "running"]_vars
    /\ (stream = "raised") ~> (ShutdownComplete /\ raised = "NetworkError")

\* the stream raised after a batch, in paper mode with a refresher, and the
\* four steps of the finally block have been taken
C22_Witness ==
    /\ stream = "raised"
    /\ batches(history) > 0
    /\ phase = "exited"
    /\ shutdown = <<"refresh_task", "final_stats", "telemetry.close",
                    "client.close">>
    /\ refresh_task = "cancelled"

\* the drive task was cancelled by the shutdown signal
Cancelled == raised = "CancelledError"

\* every open position has a row in the CSV file
OpenRowsInCsv ==
    \A i \in 1..Len(active_positions) :
        \E j \in 1..Len(closed_trades) :
            closed_trades[j].id = active_positions[i].id

\* no open position has a row in the CSV file, whose rows are those of the
\* closed trades
NoOpenRowInCsv ==
    /\ csv_lines = 1 + csv_rows_before + Len(closed_trades)
    /\ \A i \in 1..Len(active_positions) :
        \A j \in 1..Len(closed_trades) :
            closed_trades[j].id # active_positions[i].id

\* the shutdown signal cancels the drive task, the refresher is cancelled
\* and awaited, and the open positions are left as they are
ShutdownLeavesPositions ==
    /\ [][(Cancelled' /\ ~Cancelled) =>
              /\ phase = "running" /\ phase' = "finally"
              /\ UNCHANGED <<coreVars, calls>>]_vars
    /\ [][phase # "running" =>
              UNCHANGED <<active_positions, closed_trades, csv_lines,
                          virtual_balance, riskVars, calls>>]_vars
    /\ Cancelled ~> (ShutdownComplete /\ Cancelled)

\* C23 as stated: on a shutdown signal the drive task and the refresher are
\* cancelled, the open positions are not closed, no pnl is recorded for
\* them, and they are in the CSV as open
C23_OpenPositionsStayInCsv ==
    /\ ShutdownLeavesPositions
    /\ [](Cancelled /\ phase = "exited" => OpenRowsInCsv)

\* C23: on a shutdown signal the drive task and the refresher are
\* cancelled, the open positions are not closed and no pnl is recorded for
\* them; the CSV holds the closed trades alone, so they have no row in it
C23_OpenPositionsLeftOpen ==
    /\ ShutdownLeavesPositions
    /\ [](Cancelled /\ phase = "exited" => NoOpenRowInCsv)

\* a run cancelled with a position open, a trade closed before it and a
\* refresher, after the finally block
C23_Witness ==
    /\ Cancelled
    /\ phase = "exited"
    /\ active_positions # <<>>
    /\ closed_trades # <<>>
    /\ refresh_task = "cancelled"

\* C24: broadcast_event never raises into the loop: it publishes nothing
\* when telemetry is disabled and swallows a failed publish; whatever the
\* publish did, the loop goes on to the same step with the hunter, the
\* RiskManager and the PaperBroker as they were, and telemetry stays enabled
C24_TelemetryNeverSteers ==
    [][(op' \in PublishOps /\ pc \in PublishPoints) =>
          /\ phase' = "running"
          /\ raised' = "none"
          /\ UNCHANGED <<coreVars, streamVars, _enabled, last_price, calls>>
          /\ pc' = after_publish(pc, override(pc, regime, trade_signal))
          /\ IF _enabled THEN op' \in PublishOutcomes
             ELSE op' = "publish_skipped"
          /\ publish_failed => publish_failed']_vars

\* a publish went out after an earlier one of the tick had failed
C24_Witness ==
    /\ op = "published"
    /\ publish_failed
    /\ _enabled
    /\ phase = "running"
    /\ pc = "quote"

\* C25: no exception of the per-batch processing leaves the loop body: the
\* try block is left by the cancellation or by an error of the exchange
\* alone
C25_CoreNeverRaises ==
    raised \in {"none", "CancelledError", "NetworkError"}

\* the signal is being published or the quote fetched
SignalSuspended == phase = "running" /\ pc \in {"signal_publish", "quote"}

\* C26: while the drive task is suspended at the SIGNAL_GEN publish or at
\* the bid/ask fetch no batch is pushed into the Imbalance or the Level
\* engine, and as long as it stays suspended nothing but the regime
\* snapshot changes; the publish itself leaves the RiskManager and the
\* PaperBroker alone
C26_SuspensionsAreQuiet ==
    [][SignalSuspended =>
          /\ UNCHANGED <<feedVars, huntVars, streamVars, trades, last_price>>
          /\ (pc' = pc /\ phase' = phase) =>
                 UNCHANGED <<coreVars, runVars, streamVars, teleVars, phase,
                             raised, refresh_task, paper, shutdown,
                             trade_signal, trades>>
          /\ pc = "signal_publish" => UNCHANGED <<riskVars, brokerVars>>]_vars

\* the refresher turned the regime against the signal while its quote was
\* being fetched
C26_Witness ==
    /\ SignalSuspended
    /\ pc = "quote"
    /\ op = "refresh"
    /\ regime = "bear"
    /\ trade_signal # None
    /\ batches(history) > 0


(***************************************************************************)
(* The priority of the checks in CONFIRMING                                *)
(***************************************************************************)
\* the poll returns nothing for level name
EmitsNothing(name) == result' = None \/ result'.level_name # name

\* C31: on a poll that evaluates a level in CONFIRMING, the timeout is
\* checked first, the new break-out second and the nOFI last: with
\* now - sweep_start > sweep_timeout_sec + confirm_timeout_sec the level goes
\* to SCANNING and returns nothing, whatever the price and the nOFI are;
\* otherwise, with the price beyond level +/- buf, it goes to SWEEPING with
\* wick_extreme extended by the price and returns nothing, whatever the nOFI
\* is.
C31_ConfirmingPriority ==
    [][IsPoll =>
         \A name \in LevelNames :
            LET h == hunts[name]
                g == hunts'[name]
                p == current_price
                late == Elapsed(h, now') > sweep_timeout_sec + confirm_timeout_sec
            IN  (Evaluated(ticked', name) /\ h.state = _CONFIRMING) =>
                  /\ late =>
                       /\ g = [h EXCEPT !.state = _SCANNING]
                       /\ EmitsNothing(name)
                  /\ (~late /\ BreaksOut(h, p)) =>
                       /\ g = [h EXCEPT !.state = _SWEEPING,
                                        !.wick_extreme = Extreme(h, h.wick_extreme, p)]
                       /\ EmitsNothing(name)
      ]_vars

\* C31 witness: a poll with a confirming nOFI has just evaluated a level
\* whose hunt is older than sweep_timeout_sec and left it in SWEEPING: the
\* level was in CONFIRMING (a level in SWEEPING of that age goes to
\* SCANNING) and the price was beyond the buffer again
C31_Witness ==
    /\ op = "check_hunt"
    /\ result = None
    /\ \E name \in LevelNames :
         /\ Evaluated(ticked, name)
         /\ hunts[name].state = _SWEEPING
         /\ Elapsed(hunts[name], now) > sweep_timeout_sec
         /\ BreaksOut(hunts[name], current_price)
         /\ Confirms(hunts[name], nofi)

(***************************************************************************)
(* The timers of a hunt run from its first break-out                       *)
(***************************************************************************)
\* C32: sweep_start is assigned only by a poll that takes the level from
\* SCANNING to SWEEPING (to the time of that poll), so a return from
\* CONFIRMING to SWEEPING keeps it; every result is returned on a poll with
\* now - sweep_start <= sweep_timeout_sec + confirm_timeout_sec; and a level
\* in SWEEPING or CONFIRMING that a poll evaluates later than sweep_start +
\* sweep_timeout_sec + confirm_timeout_sec is in SCANNING after that poll.
C32_TimersFromFirstBreakout ==
    [][\A name \in LevelNames :
         LET h == hunts[name]
             g == hunts'[name]
         IN  /\ g.sweep_start # h.sweep_start =>
                  /\ IsPoll
                  /\ Evaluated(ticked', name)
                  /\ h.state = _SCANNING
                  /\ g.state = _SWEEPING
                  /\ g.sweep_start = now'
             /\ (h.state = _CONFIRMING /\ g.state = _SWEEPING) =>
                  g.sweep_start = h.sweep_start
             /\ (IsPoll /\ result' # None /\ result'.level_name = name) =>
                  Elapsed(h, now') <= sweep_timeout_sec + confirm_timeout_sec
             /\ (IsPoll /\ Evaluated(ticked', name)
                   /\ h.state \in {_SWEEPING, _CONFIRMING}
                   /\ now' > h.sweep_start + sweep_timeout_sec + confirm_timeout_sec) =>
                  g.state = _SCANNING
      ]_vars

\* C32 witness: a poll has just returned the result of a level at the last
\* moment of its hunt, sweep_timeout_sec + confirm_timeout_sec after the
\* break-out
C32_Witness ==
    /\ op = "check_hunt"
    /\ result # None
    /\ hunts[result.level_name].state = _COOLDOWN
    /\ Elapsed(hunts[result.level_name], now) = sweep_timeout_sec + confirm_timeout_sec

FinePrices == {1997, 2000, 2001, 2002}

FinePushNewCandle ==
    \E price \in FinePrices, amount \in Amounts :
        LET ts == IF current_candle = None THEN 0
                  ELSE candle_open_ts + candle_interval_ms
        IN  /\ op # "push_trade"
            /\ ts \div candle_interval_ms <= MaxBucket
            /\ push_trade(ts, price, amount)
            /\ UNCHANGED <<riskVars, brokerVars, runVars, feedVars, dashVars, loopVars>>

FinePushSameCandle ==
    \E price \in FinePrices, amount \in Amounts :
        /\ op # "push_trade"
        /\ current_candle # None
        /\ candle_open_ts = MaxBucket * candle_interval_ms
        /\ current_candle.v < MaxTrades
        /\ push_trade(candle_open_ts, price, amount)
        /\ UNCHANGED <<riskVars, brokerVars, runVars, feedVars, dashVars, loopVars>>

NextAnchor == FinePushNewCandle \/ FinePushSameCandle \/ CheckHunt

SpecAnchor == InitOfHunt /\ [][NextAnchor]_vars

\* LiquiditySweepStrategy.generate_signal: the TradeSignal made of the value
\* that check_hunt returned, its prices in units of 0.01
generate_signal(r) ==
    IF r = None THEN None
    ELSE [side |-> r.side, strength |-> r.strength,
          stop_loss |-> r.wick_extreme, take_profit |-> r.fib_tp]

\* is the price x (in price steps) on the loss side of the price p
LossSide(side, x, p) == IF side = "sell" THEN x > p ELSE x < p

\* C34 (as amended): for every result that a poll returns, the wick_extreme
\* of its level, before rounding, is above level_price and above the price
\* of the confirming poll for a sell, below both for a buy; the stop_loss
\* of the signal is that wick_extreme rounded to 2 decimals.
C34_WickOnLossSide ==
    [][(IsPoll /\ result' # None) =>
          LET g == hunts'[result'.level_name]
              sig == generate_signal(result')
          IN  /\ LossSide(sig.side, g.wick_extreme, g.level_price)
              /\ LossSide(sig.side, g.wick_extreme, current_price)
              /\ IsRounded2(sig.stop_loss, g.wick_extreme)
      ]_vars

\* C34 witness: a sell has just been returned at a price between the level
\* and the wick, and the rounded stop_loss of its signal is below that price
C34_Witness ==
    /\ op = "check_hunt"
    /\ result # None
    /\ result.side = "sell"
    /\ hunts[result.level_name].wick_extreme > current_price
    /\ current_price > hunts[result.level_name].level_price
    /\ generate_signal(result).stop_loss * PriceGrid < current_price

\* C34 as stated: the stop_loss handed to the risk manager is on the loss
\* side of the price of the confirming poll.
C34_AnchorOnLossSide ==
    [][(IsPoll /\ result' # None) =>
          LossSide(result'.side,
                   generate_signal(result').stop_loss * PriceGrid,
                   current_price)
      ]_vars

(***************************************************************************)
(* The hunter and the consumers of its signal: a tick of run() pushes the  *)
(* trade, polls the hunter and hands the signal, when there is one, to the *)
(* regime gate, the RiskManager and the PaperBroker.                       *)
(***************************************************************************)
\* the regime snapshot at the gate and the quote that get_bid_ask returns
GateRegimes == {"unready"} \cup Regimes
SweepQuotes == {<<2000, 2000>>, <<1998, 2000>>, <<2001, 2001>>}

\* generate_signal has returned a signal that the loop body has not handled
Unhandled == op = "check_hunt" /\ result # None

\* main.py 256-288: the regime gate, process_signal, and execute_order when
\* no paper position is active; the signal's stop_loss, in units of 0.01,
\* is counted in steps
HandleSignal ==
    /\ Unhandled
    /\ \E r \in GateRegimes, q \in SweepQuotes, tie_up \in BOOLEAN :
         LET ts == generate_signal(result)
             sig == [side |-> ts.side, stop_loss |-> ts.stop_loss * PriceGrid]
         IN  IF regime_blocks(r, sig.side)
             THEN /\ op' = "regime_override"
                  /\ UNCHANGED <<riskVars, brokerVars>>
             ELSE /\ process_signal(sig, q[1], q[2], tie_up)
                  /\ IF may_execute(order', active_positions)
                     THEN /\ active_positions' =
                                Append(active_positions,
                                       PaperPosition(next_id, order', tie_up))
                          /\ next_id' = next_id + 1
                     ELSE UNCHANGED <<active_positions, next_id>>
                  /\ UNCHANGED <<virtual_balance, peak_balance, max_drawdown_pct,
                   _gross_win, _gross_loss,
                                 closed_trades, csv_rows_before, _initial_balance, csv_lines>>
    /\ UNCHANGED <<huntVars, runVars, feedVars, dashVars, loopVars>>

NextSweep ==
    \/ ~Unhandled /\ PushNewCandle
    \/ ~Unhandled /\ PushSameCandle
    \/ CheckHunt
    \/ HandleSignal

SpecSweep == InitOfRun /\ [][NextSweep]_vars

\* C35: a poll that returns a result leaves the level of that result in
\* COOLDOWN until now + cooldown_sec, and the hunt that it ends had started
\* after the level's previous cooldown; whatever then becomes of the signal
\* (dropped by the regime gate, rejected by process_signal, skipped because
\* a paper position is active, or executed), no step but a poll changes the
\* state of a level, and a poll returns nothing for a level in COOLDOWN and
\* leaves it there until cooldown_until.
C35_SweepConsumed ==
    [][\A name \in LevelNames :
         LET h == hunts[name]
             g == hunts'[name]
         IN  /\ (IsPoll /\ result' # None /\ result'.level_name = name) =>
                  /\ g.state = _COOLDOWN
                  /\ g.cooldown_until = now' + cooldown_sec
                  /\ h.cooldown_until = 0 \/ h.sweep_start > h.cooldown_until
             /\ ~IsPoll =>
                  /\ g.state = h.state
                  /\ h.state # _SCANNING => g = h
             /\ (IsPoll /\ h.state = _COOLDOWN) =>
                  /\ EmitsNothing(name)
                  /\ now' < h.cooldown_until => g = h
      ]_vars

\* C35 witness: the sell that a level returned has passed the RiskManager
\* and was skipped because the paper position of an earlier sell, taken at
\* another quote, is active; both levels are in COOLDOWN
C35_Witness ==
    /\ op = "process_signal"
    /\ order # None
    /\ Len(active_positions) = 1
    /\ active_positions[1].take_profit # order.take_profit
    /\ result # None
    /\ hunts[result.level_name].state = _COOLDOWN
    /\ \E other \in LevelNames \ {result.level_name} :
          hunts[other].state = _COOLDOWN

(***************************************************************************)
(* The consecutive-loss breaker in the drive loop: the loop of run() in    *)
(* paper mode on a tape that hits the stop-loss or the take-profit of a    *)
(* buy, for up to MaxBreakerEntries positions.                             *)
(***************************************************************************)
MaxBreakerEntries == 5
BreakerPrices == {1980, 2040}
BreakerSignals == {[side |-> "buy", stop_loss |-> 1980]}

\* main.py 216-223: a batch arrives, the metrics go to the RiskManager
BreakerUpdate ==
    /\ pc = "batch"
    /\ \E price \in BreakerPrices :
        /\ update_metrics(0)
        /\ last_price' = price
        /\ calls' = <<<<"update_metrics", 0>>>>
    /\ pc' = next_pc(pc)
    /\ UNCHANGED <<huntVars, brokerVars, feedVars, dashVars, loopVars>>

\* main.py 246-284: the signal, when there is one, goes through the
\* RiskManager, and a validated order is executed when no position is open
BreakerSignal ==
    /\ pc = "signal"
    /\ \/ /\ calls' = calls \o <<<<"generate_signal", 0>>>>
          /\ op' = "generate_signal"
          /\ UNCHANGED <<riskVars, brokerVars>>
       \/ /\ \E sig \in BreakerSignals, q \in RunQuotes, tie_up \in BOOLEAN :
                /\ process_signal(sig, q[1], q[2], tie_up)
                /\ IF may_execute(order', active_positions)
                   THEN /\ next_id <= MaxBreakerEntries
                        /\ active_positions' =
                            Append(active_positions,
                                   PaperPosition(next_id, order', tie_up))
                        /\ next_id' = next_id + 1
                        /\ calls' = calls \o <<<<"generate_signal", 1>>,
                                               <<"process_signal", 1>>,
                                               <<"execute_order", next_id>>>>
                   ELSE /\ UNCHANGED <<active_positions, next_id>>
                        /\ calls' = calls \o <<<<"generate_signal", 1>>,
                                               <<"process_signal", 1>>>>
             /\ UNCHANGED <<virtual_balance, peak_balance, max_drawdown_pct,
                   _gross_win, _gross_loss,
                         closed_trades, csv_rows_before, _initial_balance, csv_lines>>
    /\ pc' = next_pc(pc)
    /\ UNCHANGED <<last_price, huntVars, feedVars, dashVars, loopVars>>

NextBreaker == Midnight \/ BreakerUpdate \/ RunMonitor \/ BreakerSignal

SpecBreaker == InitOfRun /\ [][NextBreaker]_vars

\* the loss breaker holds with no position open and no rollover pending
LossBreakerHolds ==
    /\ consecutive_losses >= max_consecutive_losses
    /\ active_positions = <<>>
    /\ current_day = today

\* C36: in the drive loop in paper mode, a step that starts with
\* consecutive_losses >= max_consecutive_losses and no open position, and
\* during which the UTC date does not change, produces no ValidatedOrder,
\* opens no position and leaves the counter as it is; so the breaker holds
\* on every later tick until the date changes.
C36_LossBreakerUntilMidnight ==
    [][(LossBreakerHolds /\ today' = today) =>
          /\ order' = None
          /\ active_positions' = <<>>
          /\ consecutive_losses' = consecutive_losses
          /\ current_day' = today'
      ]_vars

\* C36 witness: with three losses in a row on the day, no position open and
\* neither daily breaker set, process_signal has just rejected a signal for
\* the consecutive losses
C36_Witness ==
    /\ LossBreakerHolds
    /\ ~daily_halted
    /\ op = "process_signal"
    /\ signal # NoSignal
    /\ reject = "consecutive_losses"
    /\ order = None

(***************************************************************************)
(* The RiskManager on the signals of the hunter: a TradeSignal carries the *)
(* price, the strength and the Fibonacci take-profit beside the side and   *)
(* the stop-loss.                                                          *)
(***************************************************************************)
HunterStops == {<<"buy", 1997>>, <<"sell", 2003>>}
HunterTakeProfits == {1990, 2010}
HunterStrengths == {"HIGH", "LOW"}
SignalQuotes == {<<2001, 2001>>, <<1998, 2000>>}

\* the TradeSignals of generate_signal, in quote steps
HunterSignals ==
    {[side |-> s[1], stop_loss |-> s[2], take_profit |-> tp, price |-> 2000,
      strength |-> st] :
        s \in HunterStops, tp \in HunterTakeProfits, st \in HunterStrengths}

\* the signals that differ from sig in take_profit, price or strength only
Twins(sig) ==
    {t \in HunterSignals : t.side = sig.side /\ t.stop_loss = sig.stop_loss}

ProcessHunterSignal ==
    \E sig \in HunterSignals, q \in SignalQuotes, tie_up \in BOOLEAN :
        /\ process_signal(sig, q[1], q[2], tie_up)
        /\ UNCHANGED <<huntVars, brokerVars, runVars, feedVars, dashVars, loopVars>>

NextSignal == Midnight \/ UpdateMetrics \/ ProcessHunterSignal \/ RecordFill

SpecSignal == InitOfRisk /\ [][NextSignal]_vars

\* the take-profit that process_signal computes: entry +/- risk_distance *
\* reward_risk_ratio
RatioTakeProfit(side, entry_price, stop_loss) ==
    IF side = "buy"
    THEN entry_price + Abs(entry_price - stop_loss) * reward_risk_ratio
    ELSE entry_price - Abs(entry_price - stop_loss) * reward_risk_ratio

\* C37: in every risk state and for every bid and ask, process_signal
\* returns the same value and leaves the same breaker flag for two signals
\* that differ only in take_profit, price or strength; the take_profit of
\* a ValidatedOrder is entry +/- reward_risk_ratio * risk_distance, rounded
\* to 8 decimals.
C37_OrderIgnoresFibonacci ==
    [][op' = "process_signal" =>
         LET d == _check_day_rollover(DailyState, today)
             gate(s, tie_up) ==
                gate_signal(account_balance, d, volatility_halted, s,
                            quote'[1], quote'[2], tie_up)
         IN  /\ \A t \in Twins(signal'), tie_up \in BOOLEAN :
                  gate(t, tie_up) = gate(signal', tie_up)
             /\ \E tie_up \in BOOLEAN : order' = gate(signal', tie_up).order
             /\ order' # None =>
                  LET entry_price == IF signal'.side = "buy" THEN quote'[2]
                                     ELSE quote'[1]
                  IN  \E tie_up \in BOOLEAN :
                        order'.take_profit =
                           round8(RatioTakeProfit(signal'.side, entry_price,
                                                  signal'.stop_loss), tie_up)
      ]_vars

\* C37 witness: a buy whose Fibonacci take-profit is below the ask has been
\* validated, with a take_profit above the ask
C37_Witness ==
    /\ op = "process_signal"
    /\ order # None
    /\ signal.side = "buy"
    /\ signal.take_profit < quote[2]
    /\ order.take_profit * QuoteGrid > quote[2]

(***************************************************************************)
(* Validated orders under the position monitor: the loop of run() opens a  *)
(* position when none is active and the monitor closes it at its stop-loss *)
(* or its take-profit.  Prices are in units of 0.00000001, so that the     *)
(* commission of 0.05% on 20000 is 10 units.                               *)
(***************************************************************************)
\* ValidatedOrders: the stop_loss on the loss side of the entry and
\* take_profit = entry +/- reward_risk_ratio * risk_distance; the first and
\* the third have a stop_loss 0.04% from the entry, the last has the
\* smallest size
ValidatedOrders ==
    {[side |-> "buy", entry_price |-> 20000, stop_loss |-> 19992,
      take_profit |-> 20016, position_size |-> 20000000],
     [side |-> "buy", entry_price |-> 20000, stop_loss |-> 19950,
      take_profit |-> 20100, position_size |-> 20000000],
     [side |-> "sell", entry_price |-> 20000, stop_loss |-> 20008,
      take_profit |-> 19984, position_size |-> 20000000],
     [side |-> "sell", entry_price |-> 20000, stop_loss |-> 20050,
      take_profit |-> 19900, position_size |-> 100000]}
\* last prices, in quote steps
MonitorPrices == {79600, 79800, 79968, 80064, 80400}

\* main.py 266-273: a validated order is executed when no position is active
OpenValidated ==
    /\ active_positions = <<>>
    /\ next_id <= MaxEntries
    /\ \E o \in ValidatedOrders, tie_up \in BOOLEAN : execute_order(o, tie_up)
    /\ UNCHANGED <<huntVars, riskVars, runVars, feedVars, dashVars, loopVars>>

\* main.py 225-231: the positions are checked against the last price and
\* every ClosedTrade is recorded by the RiskManager
MonitorTick ==
    /\ \E price \in MonitorPrices, tie_up \in BOOLEAN :
         LET r == check_positions(Broker, active_positions, price, tie_up)
         IN  /\ SetBroker(r.broker)
             /\ IF r.closed = <<>>
                THEN UNCHANGED riskVars
                ELSE /\ SetDaily(fills_recorded(account_balance,
                             _check_day_rollover(DailyState, today),
                             r.closed))
                     /\ metrics' = None
                     /\ NoOrder
                     /\ UNCHANGED <<account_balance, volatility_halted, today>>
    /\ op' = "check_positions"
    /\ UNCHANGED <<next_id, csv_rows_before, _initial_balance, huntVars, runVars, feedVars, dashVars,
                   loopVars>>

NextMonitor == OpenValidated \/ MonitorTick

SpecMonitor == InitOfHunt /\ [][NextMonitor]_vars

\* the step closes a position: the ClosedTrade that it appends
Closes == Len(closed_trades') = Len(closed_trades) + 1
LastClosed == closed_trades'[Len(closed_trades')]
\* the take-profit after the exit commission is not on the losing side of
\* the entry after the entry commission
CoversCommissions(ct) ==
    IF ct.side = "buy" THEN ct.exit_price >= ct.entry_price
    ELSE ct.exit_price <= ct.entry_price

\* C38 (as amended): a close at the stop-loss (LOSS) has pnl <= 0; a close
\* at the take-profit (WIN) has pnl >= 0 when the take-profit covers the
\* two commissions and pnl <= 0 when it does not; the RiskManager counts
\* the close as a loss exactly when pnl < 0, whatever the result is.
C38_LabelAndSign ==
    [][Closes =>
         LET ct == LastClosed
         IN  /\ ct.result = "LOSS" => ct.pnl <= 0
             /\ (ct.result = "WIN" /\ CoversCommissions(ct)) => ct.pnl >= 0
             /\ (ct.result = "WIN" /\ ~CoversCommissions(ct)) => ct.pnl <= 0
             /\ consecutive_losses' =
                   (IF ct.pnl < 0 THEN consecutive_losses + 1 ELSE 0)
      ]_vars

\* C38 witness: the monitor has closed a position at its take-profit as a
\* WIN with pnl < 0, and the RiskManager has counted a loss
C38_Witness ==
    /\ op = "check_positions"
    /\ closed_trades # <<>>
    /\ closed_trades[Len(closed_trades)].result = "WIN"
    /\ closed_trades[Len(closed_trades)].pnl < 0
    /\ consecutive_losses = Len(closed_trades)

\* C38 as stated: every close at the take-profit has pnl >= 0 and every
\* close at the stop-loss has pnl < 0.
C38_LabelAgreesWithSign ==
    [][Closes =>
         /\ LastClosed.result = "WIN" => LastClosed.pnl >= 0
         /\ LastClosed.result = "LOSS" => LastClosed.pnl < 0
      ]_vars


(***************************************************************************)
(* C39: the broker's accounts                                              *)
(***************************************************************************)
\* the sum of pnl over the closed trades cts
RECURSIVE SumPnl(_)
SumPnl(cts) == IF cts = <<>> THEN 0 ELSE Head(cts).pnl + SumPnl(Tail(cts))

\* the positions ps without the one at index i
WithoutIndex(ps, i) == SubSeq(ps, 1, i - 1) \o SubSeq(ps, i + 1, Len(ps))

\* the accounts agree with the closed trades
AccountsBalance ==
    /\ virtual_balance = _initial_balance + SumPnl(closed_trades)
    /\ _gross_win - _gross_loss = SumPnl(closed_trades)
    /\ peak_balance >= virtual_balance

\* C39: after any sequence of execute_order and close_position calls the
\* balance is the initial balance plus the pnl of all closed trades, gross
\* win minus gross loss is that same sum, the peak is at least the balance
\* and never decreases, execute_order changes none of balance, peak, gross
\* totals or drawdown, and close_position removes exactly the closed
\* position from active_positions
C39_BrokerAccounts ==
    /\ []AccountsBalance
    /\ [][/\ peak_balance' >= peak_balance
          /\ op' = "execute_order" =>
                /\ UNCHANGED <<virtual_balance, peak_balance, _gross_win,
                               _gross_loss, max_drawdown_pct>>
          /\ op' = "close_position" =>
                \E i \in 1..Len(active_positions) :
                    /\ active_positions' = WithoutIndex(active_positions, i)
                    /\ closed_trades'[Len(closed_trades')].id =
                            active_positions[i].id]_vars

\* a losing close after a winning one
C39_Witness ==
    /\ op = "close_position"
    /\ _gross_win > 0
    /\ _gross_loss > 0
    /\ peak_balance > virtual_balance
    /\ Len(closed_trades) >= 2
    /\ closed_trades[Len(closed_trades)].pnl < 0

(***************************************************************************)
(* C40: the dashboard's ConnectionManager under the subscriber task and    *)
(* the endpoint tasks of the WebSockets, interleaved at their awaits       *)
(***************************************************************************)
\* websocket_endpoint: symbol.upper().replace("_", "/")
normalise(path) ==
    CASE path = "btc_usdt" -> "BTC/USDT"
      [] path = "BTC_USDT" -> "BTC/USDT"
      [] path = "eth_usdt" -> "ETH/USDT"

\* self._clients.get(symbol, set())
registered(cl, symbol) == IF symbol \in DOMAIN cl THEN cl[symbol] ELSE {}

\* connect: self._clients.setdefault(symbol, set()).add(ws)
connect(cl, ws, symbol) ==
    [s \in DOMAIN cl \cup {symbol} |->
        IF s = symbol THEN registered(cl, symbol) \cup {ws} ELSE cl[s]]

\* disconnect: discard ws, and delete the key of a set that is empty
disconnect(cl, ws, symbol) ==
    IF symbol \notin DOMAIN cl THEN cl
    ELSE IF cl[symbol] \ {ws} = {}
         THEN [s \in DOMAIN cl \ {symbol} |-> cl[s]]
         ELSE [cl EXCEPT ![symbol] = @ \ {ws}]

\* the set object that the broadcast b iterates: the set of the dictionary
\* while its key is the one b read, an orphan (emptied before its key was
\* deleted) afterwards
iterated(b, cl) == IF b.live THEN cl[b.symbol] ELSE {}

\* broadcast 62-63: the loop is over, the dead are discarded from the set
finished(b) == [b EXCEPT !.status = "done", !.current = 0]

\* broadcast 59: the send to ws is awaited
sending(b, ws) ==
    [b EXCEPT !.status = "sending", !.current = ws,
              !.yielded = @ \cup {ws}, !.sends = @ + 1]

\* broadcast 57: the next step of the iteration over the set. A set whose
\* size differs from the size at the start of the iteration raises
\* RuntimeError (Set changed size during iteration); a set that changed and
\* has its old size is scanned on from the iterator's position in the hash
\* table, which passes over any of its members or none
iter_next(b, cl) ==
    LET s == iterated(b, cl)
    IN  IF Cardinality(s) # b.si_used
        THEN {[b EXCEPT !.status = "failed", !.current = 0]}
        ELSE IF ~b.changed
        THEN IF s \ b.yielded = {} THEN {finished(b)}
             ELSE {sending(b, ws) : ws \in s \ b.yielded}
        ELSE {finished(b)} \cup
             {sending(b, ws) : ws \in IF b.sends < MaxSends THEN s ELSE {}}

\* the broadcast b after another task changed the dictionary from cl to cl2
\* while b was suspended in a send
churned(b, cl, cl2) ==
    IF b.status # "sending" THEN b
    ELSE [b EXCEPT
            !.changed = IF b.live /\ registered(cl2, b.symbol) # cl[b.symbol]
                        THEN TRUE ELSE @,
            !.live = @ /\ b.symbol \in DOMAIN cl2,
            !.steady = @ \cap registered(cl2, b.symbol),
            !.ever = @ \cup registered(cl2, b.symbol)]

\* websocket_endpoint 180-181: the task is suspended in ws.accept()
Accept ==
    /\ \E ws \in Sockets, path \in Paths :
        /\ sockets[ws].state = "new"
        /\ sockets' = [sockets EXCEPT ![ws] = [state |-> "accepting",
                                               symbol |-> normalise(path)]]
    /\ op' = "accept"
    /\ UNCHANGED <<_clients, broadcasting, delivered>>
    /\ UNCHANGED <<huntVars, riskVars, brokerVars, runVars, feedVars, loopVars>>

\* ConnectionManager.connect 43: the accept returned, ws is registered and
\* the task waits in receive_text
Connect ==
    /\ \E ws \in Sockets :
        /\ sockets[ws].state = "accepting"
        /\ sockets' = [sockets EXCEPT ![ws].state = "open"]
        /\ _clients' = connect(_clients, ws, sockets[ws].symbol)
    /\ broadcasting' = churned(broadcasting, _clients, _clients')
    /\ op' = "connect"
    /\ UNCHANGED delivered
    /\ UNCHANGED <<huntVars, riskVars, brokerVars, runVars, feedVars, loopVars>>

\* websocket_endpoint 186-189: receive_text raises, ws is disconnected
Disconnect ==
    /\ \E ws \in Sockets :
        /\ sockets[ws].state = "open"
        /\ sockets' = [sockets EXCEPT ![ws].state = "gone"]
        /\ _clients' = disconnect(_clients, ws, sockets[ws].symbol)
    /\ broadcasting' = churned(broadcasting, _clients, _clients')
    /\ op' = "disconnect"
    /\ UNCHANGED delivered
    /\ UNCHANGED <<huntVars, riskVars, brokerVars, runVars, feedVars, loopVars>>

\* _redis_subscriber 119 and broadcast 55-59: a message for symbol arrives;
\* the broadcast runs to its first send, or to its end over no client
BroadcastStart ==
    /\ broadcasting.status \in {"idle", "done", "failed"}
    /\ broadcasting.seq < MaxBroadcasts
    /\ \E symbol \in Symbols :
        LET clients == registered(_clients, symbol)
            b == [Idle EXCEPT !.symbol = symbol,
                              !.live = symbol \in DOMAIN _clients,
                              !.si_used = Cardinality(clients),
                              !.steady = clients, !.ever = clients,
                              !.seq = broadcasting.seq + 1]
        IN  broadcasting' \in iter_next(b, _clients)
    /\ delivered' = [ws \in Sockets |-> 0]
    /\ op' = "broadcast"
    /\ UNCHANGED <<_clients, sockets>>
    /\ UNCHANGED <<huntVars, riskVars, brokerVars, runVars, feedVars, loopVars>>

\* broadcast 59-63: the send returns or raises, and the loop goes on to its
\* next send, to its end, or to the RuntimeError of the iteration
SendReturns ==
    /\ broadcasting.status = "sending"
    /\ \E ok \in BOOLEAN :
        LET ws == broadcasting.current
            b == IF ok THEN broadcasting
                 ELSE [broadcasting EXCEPT !.dead = @ \cup {ws}]
        IN  /\ delivered' = IF ok THEN [delivered EXCEPT ![ws] = @ + 1]
                            ELSE delivered
            /\ broadcasting' \in iter_next(b, _clients)
            /\ _clients' =
                    IF broadcasting'.status = "done" /\ b.live
                    THEN [_clients EXCEPT ![b.symbol] = @ \ b.dead]
                    ELSE _clients
    /\ op' = "send"
    /\ UNCHANGED sockets
    /\ UNCHANGED <<huntVars, riskVars, brokerVars, runVars, feedVars, loopVars>>

NextDash == Accept \/ Connect \/ Disconnect \/ BroadcastStart \/ SendReturns

InitOfDash == Init /\ DefaultRisk /\ DefaultBroker /\ DefaultLife

SpecDash == InitOfDash /\ [][NextDash]_vars

\* C40: a client connecting to or disconnecting from symbol S while
\* broadcast(S, m) is suspended inside a send does not make the broadcast
\* fail or skip clients: every client registered under S for the whole
\* broadcast receives m exactly once (unless its send fails), clients never
\* registered under S do not receive it, and the clients whose send failed
\* are removed from the set of S
C40_BroadcastSurvivesChurn ==
    (broadcasting.changed /\ broadcasting.status \in {"done", "failed"}) =>
        /\ broadcasting.status = "done"
        /\ \A ws \in broadcasting.steady \ broadcasting.dead :
                delivered[ws] = 1
        /\ \A ws \in Sockets \ broadcasting.ever : delivered[ws] = 0
        /\ broadcasting.dead \cap registered(_clients, broadcasting.symbol)
                = {}
=============================================================================
